---------------------------- MODULE Spec2Model ----------------------------
(***************************************************************************)
(* Model of the CHEOPS ageing-monitoring data pipeline                        *)
(* (data_loader.py, functions.py, config.py).                              *)
(*                                                                         *)
(* Strings are sequences of one-character strings, so that the regular     *)
(* expressions of the code are modelled by what they match.  Opaque        *)
(* values that the code never inspects character by character (a target   *)
(* name read from the reference table or from a header) are one-element    *)
(* sequences holding a word.                                               *)
(***************************************************************************)
EXTENDS Integers, Sequences, FiniteSets, TLC

VARIABLES
    or_id1,        \* first argument of fuzzy_match_or_id / extract_tg_group
    or_id2,        \* second argument of fuzzy_match_or_id
    fm_result,     \* results of the calls made so far: set of <<i, j, r>>
    tg_result,     \* <<"unset">> or <<"ret", extract_tg_group(or_id1)>>
    filepath,      \* argument of get_or_id_from_filepath
    path_result,   \* <<"unset">> or <<"ret", get_or_id_from_filepath(filepath)>>
    targets_df,    \* the reference table: sequence of rows [Target, OrId]
    query,         \* argument of get_target_from_or_id
    lookup_result, \* <<"unset">> or <<"ret", get_target_from_or_id(query)>>
    ro_data,       \* first argument of remove_outliers_array
    ro_threshold,  \* second argument of remove_outliers_array, in halves
    ro_result,     \* <<"unset">> or <<"ret", [data, mask]>>
    disk,          \* the paths of the files on disk
    source_name,   \* the key of DATA_SOURCES handed to get_fits_files
    fits_result,   \* <<"unset">> or <<"ret", get_fits_files(source_config)>>
    fs,            \* the FITS files on disk: path -> [openable, hdul]
    targets_csv,   \* what load_targets_table() returns: rows [Target, OrId]
    call,          \* the loader call in progress and its arguments
    pc,            \* "idle", "loop" (between files), "open" (in a file), "done"
    ld_files,      \* fits_files: the list the loader iterates over
    next_file,     \* index in ld_files of the file in hand
    open_files,    \* the paths of the files that are open
    records,       \* the records collected so far
    returned,      \* <<"unset">> or <<"ret", the rows of the returned dataset>>
    st_data,       \* first argument of calculate_statistics
    st_prefix,     \* second argument of calculate_statistics
    st_times,      \* third argument of calculate_statistics
    st_result,     \* <<"unset">> or <<"ret", calculate_statistics(...)>>
    cache,         \* the keys of the calls st.cache_data holds a result for
    scans,         \* how often each (source, flag, sigma) was scanned since the last clear
    requests,      \* the number of requests the application has made
    bn_data,       \* first argument of calculate_binned_noise
    bn_times,      \* second argument of calculate_binned_noise
    bn_width,      \* third argument of calculate_binned_noise, in hours
    bn_result,     \* <<"unset">> or <<"ret", calculate_binned_noise(...)>>
    pr_data,       \* a column of the table: param_data
    pr_times,      \* times_hours of the table
    pr_flag,       \* remove_outliers_flag
    pr_sigma,      \* sigma_threshold, in halves
    pr_result,     \* <<"unset">> or <<"ret", [data, times, stats]>>
    ac_disk,       \* the paths of the files on disk
    ac_table,      \* what load_targets_table() returns: rows [Target, OrId]
    ac_result,     \* <<"unset">> or <<"ret", the rows of the accessibility table>>
    eq_ids,        \* three identifier strings
    eq_table,      \* the reference table: sequence of rows [Target, OrId]
    eq_match,      \* <<"unset">> or <<"ret", fuzzy_match_or_id on every pair of eq_ids>>
    eq_target      \* <<"unset">> or <<"ret", get_target_from_or_id of each of eq_ids>>

varsResolver == <<or_id1, or_id2, fm_result, tg_result>>
varsPath == <<filepath, path_result>>
varsLookup == <<targets_df, query, lookup_result>>
varsOutlier == <<ro_data, ro_threshold, ro_result>>
varsCatalog == <<disk, source_name, fits_result>>
varsStats == <<st_data, st_prefix, st_times, st_result>>
varsCache == <<cache, scans, requests>>
varsNoise == <<bn_data, bn_times, bn_width, bn_result>>
varsPair == <<pr_data, pr_times, pr_flag, pr_sigma, pr_result>>
varsAccess == <<ac_disk, ac_table, ac_result>>
varsEquiv == <<eq_ids, eq_table, eq_match, eq_target>>
varsLoader == <<fs, targets_csv, call, pc, ld_files, next_file, open_files, records, returned>>

vars == <<varsResolver, varsPath, varsLookup, varsOutlier, varsCatalog, varsLoader, varsStats, varsCache, varsNoise, varsPair, varsAccess, varsEquiv>>

Unset == <<"unset">>
Ret(x) == <<"ret", x>>

\* the variables of the other components, left alone by a component's actions
notResolver == <<varsPath, varsLookup, varsOutlier, varsCatalog, varsLoader, varsStats, varsCache, varsNoise, varsPair, varsAccess, varsEquiv>>
notPath == <<varsResolver, varsLookup, varsOutlier, varsCatalog, varsLoader, varsStats, varsCache, varsNoise, varsPair, varsAccess, varsEquiv>>
notLookup == <<varsResolver, varsPath, varsOutlier, varsCatalog, varsLoader, varsStats, varsCache, varsNoise, varsPair, varsAccess, varsEquiv>>
notOutlier == <<varsResolver, varsPath, varsLookup, varsCatalog, varsLoader, varsStats, varsCache, varsNoise, varsPair, varsAccess, varsEquiv>>
notCatalog == <<varsResolver, varsPath, varsLookup, varsOutlier, varsLoader, varsStats, varsCache, varsNoise, varsPair, varsAccess, varsEquiv>>
notLoader == <<varsResolver, varsPath, varsLookup, varsOutlier, varsCatalog, varsStats, varsCache, varsNoise, varsPair, varsAccess, varsEquiv>>
notStats == <<varsResolver, varsPath, varsLookup, varsOutlier, varsCatalog, varsLoader, varsCache, varsNoise, varsPair, varsAccess, varsEquiv>>
notCache == <<varsResolver, varsPath, varsLookup, varsOutlier, varsCatalog, varsLoader, varsStats, varsNoise, varsPair, varsAccess, varsEquiv>>
notNoise == <<varsResolver, varsPath, varsLookup, varsOutlier, varsCatalog, varsLoader, varsStats, varsCache, varsPair, varsAccess, varsEquiv>>
notPair == <<varsResolver, varsPath, varsLookup, varsOutlier, varsCatalog, varsLoader, varsStats, varsCache, varsNoise, varsAccess, varsEquiv>>
notAccess == <<varsResolver, varsPath, varsLookup, varsOutlier, varsCatalog, varsLoader, varsStats, varsCache, varsNoise, varsPair, varsEquiv>>
notEquiv == <<varsResolver, varsPath, varsLookup, varsOutlier, varsCatalog, varsLoader, varsStats, varsCache, varsNoise, varsPair, varsAccess>>

\* a component that is not exercised by the specification at hand
IdleResolver ==
    /\ or_id1 = <<>>
    /\ or_id2 = <<>>
    /\ fm_result = {}
    /\ tg_result = Unset

IdlePath ==
    /\ filepath = <<>>
    /\ path_result = Unset

IdleLookup ==
    /\ targets_df = <<>>
    /\ query = <<>>
    /\ lookup_result = Unset

IdleOutlier ==
    /\ ro_data = <<>>
    /\ ro_threshold = 0
    /\ ro_result = Unset

IdleCatalog ==
    /\ disk = {}
    /\ source_name = ""
    /\ fits_result = Unset

IdleStats ==
    /\ st_data = <<>>
    /\ st_prefix = ""
    /\ st_times = [given |-> FALSE, hours |-> <<>>]
    /\ st_result = Unset

IdleCache ==
    /\ cache = {}
    /\ scans = <<>>
    /\ requests = 0

IdleNoise ==
    /\ bn_data = <<>>
    /\ bn_times = <<>>
    /\ bn_width = 0
    /\ bn_result = Unset

IdlePair ==
    /\ pr_data = <<>>
    /\ pr_times = [given |-> FALSE, hours |-> <<>>]
    /\ pr_flag = FALSE
    /\ pr_sigma = 0
    /\ pr_result = Unset

IdleAccess ==
    /\ ac_disk = {}
    /\ ac_table = <<>>
    /\ ac_result = Unset

IdleEquiv ==
    /\ eq_ids = <<>>
    /\ eq_table = <<>>
    /\ eq_match = Unset
    /\ eq_target = Unset

NoCall == [fn |-> "none"]

IdleLoader ==
    /\ fs = <<>>
    /\ targets_csv = <<>>
    /\ call = NoCall
    /\ pc = "idle"
    /\ ld_files = <<>>
    /\ next_file = 0
    /\ open_files = {}
    /\ records = <<>>
    /\ returned = Unset

-----------------------------------------------------------------------------
(* Characters *)

Digits == <<"0", "1", "2", "3", "4", "5", "6", "7", "8", "9">>

UpperChars ==
    <<"A", "B", "C", "D", "E", "F", "G", "H", "I", "J", "K", "L", "M",
      "N", "O", "P", "Q", "R", "S", "T", "U", "V", "W", "X", "Y", "Z">>

LowerChars ==
    <<"a", "b", "c", "d", "e", "f", "g", "h", "i", "j", "k", "l", "m",
      "n", "o", "p", "q", "r", "s", "t", "u", "v", "w", "x", "y", "z">>

Whitespace == {" ", "\n", "\t"}

\* \d of the regular expressions
IsDigit(c) == \E i \in 1..10 : Digits[i] = c

DigitVal(c) == (CHOOSE i \in 1..10 : Digits[i] = c) - 1

\* str.lower() on one character
LowerChar(c) ==
    IF \E i \in 1..26 : UpperChars[i] = c
    THEN LowerChars[CHOOSE i \in 1..26 : UpperChars[i] = c]
    ELSE c

\* str.lower()
Lower(s) == [i \in 1..Len(s) |-> LowerChar(s[i])]

\* str.strip(): leading and trailing whitespace removed
Strip(s) ==
    LET keep == {i \in 1..Len(s) : s[i] \notin Whitespace}
    IN  IF keep = {} THEN <<>>
        ELSE LET lo == CHOOSE i \in keep : \A j \in keep : i <= j
                 hi == CHOOSE i \in keep : \A j \in keep : j <= i
             IN  SubSeq(s, lo, hi)

\* int(digits) for a non-empty run of decimal digits
RECURSIVE IntOfDigits(_)
IntOfDigits(d) ==
    IF Len(d) = 0 THEN 0
    ELSE 10 * IntOfDigits(SubSeq(d, 1, Len(d) - 1)) + DigitVal(d[Len(d)])

\* the end of the greedy digit run \d* that starts at position i
\* (i - 1 when s[i] is no digit)
RunEnd(s, i) ==
    LET stops == {j \in i..Len(s) : ~IsDigit(s[j])}
    IN  IF stops = {} THEN Len(s)
        ELSE (CHOOSE j \in stops : \A k \in stops : j <= k) - 1

\* Python's None as the result of a function that returns an int >= 0
NoneInt == -1

\* Python's None as the result of a function that returns a string
NoneStr == <<"None">>


-----------------------------------------------------------------------------
(* Identity resolver: data_loader.py, TARGETS TABLE *)

\* re.search(r'TG(\d+)', tg_str, re.IGNORECASE): start of the leftmost match,
\* 0 when there is none
SearchTG(s) ==
    LET hits == {i \in 1..(Len(s) - 2) :
                    /\ LowerChar(s[i]) = "t"
                    /\ LowerChar(s[i + 1]) = "g"
                    /\ IsDigit(s[i + 2])}
    IN  IF hits = {} THEN 0 ELSE CHOOSE i \in hits : \A j \in hits : i <= j

\* a slip in the slice: the first 3 digits instead of the first 4
extract_tg_group_short(tg_str) ==
    LET m == SearchTG(tg_str)
    IN  IF m # 0
        THEN LET digits == SubSeq(tg_str, m + 2, RunEnd(tg_str, m + 2))
             IN  IF Len(digits) <= 4
                 THEN IntOfDigits(digits)
                 ELSE IntOfDigits(SubSeq(digits, 1, 3))
        ELSE NoneInt

extract_tg_group(tg_str) ==
    LET m == SearchTG(tg_str)
    IN  IF m # 0
        THEN LET digits == SubSeq(tg_str, m + 2, RunEnd(tg_str, m + 2))
             IN  IF Len(digits) <= 4
                 THEN IntOfDigits(digits)
                 ELSE IntOfDigits(SubSeq(digits, 1, 4))
        ELSE NoneInt

\* re.sub(r'_V\d+$', '', s).  The pattern is case-sensitive; $ matches at the
\* end of the string and before a newline that ends the string.
StripVersion(s) ==
    LET e == IF Len(s) > 0 /\ s[Len(s)] = "\n" THEN Len(s) - 1 ELSE Len(s)
        hits == {p \in 1..(e - 2) :
                    /\ s[p] = "_"
                    /\ s[p + 1] = "V"
                    /\ \A k \in (p + 2)..e : IsDigit(s[k])}
    IN  IF hits = {} THEN s
        ELSE LET p == CHOOSE q \in hits : \A r \in hits : q <= r
             IN  SubSeq(s, 1, p - 1) \o SubSeq(s, e + 1, Len(s))

\* re.search(r'(pr\d+)', s): the matched text, NoneStr when there is no match
SearchPR(s) ==
    LET hits == {i \in 1..(Len(s) - 2) :
                    /\ s[i] = "p"
                    /\ s[i + 1] = "r"
                    /\ IsDigit(s[i + 2])}
    IN  IF hits = {} THEN NoneStr
        ELSE LET i == CHOOSE h \in hits : \A j \in hits : h <= j
             IN  SubSeq(s, i, RunEnd(s, i + 2))

\* a slip: an identifier without a TG segment matches any group
fuzzy_match_or_id_lenient(a, b) ==
    LET s1 == Strip(Lower(StripVersion(a)))
        s2 == Strip(Lower(StripVersion(b)))
    IN  IF s1 = s2 THEN TRUE
        ELSE LET pr1 == SearchPR(s1)
                 pr2 == SearchPR(s2)
             IN  IF pr1 # NoneStr /\ pr2 # NoneStr
                 THEN IF pr1 # pr2 THEN FALSE
                      ELSE LET tg1 == extract_tg_group(s1)
                               tg2 == extract_tg_group(s2)
                           IN  tg1 = NoneInt \/ tg2 = NoneInt \/ tg1 = tg2
                 ELSE FALSE

\* a slip: the version suffix is stripped from the first argument only
fuzzy_match_or_id_onesided(a, b) ==
    LET s1 == Strip(Lower(StripVersion(a)))
        s2 == Strip(Lower(b))
    IN  IF s1 = s2 THEN TRUE
        ELSE LET pr1 == SearchPR(s1)
                 pr2 == SearchPR(s2)
             IN  IF pr1 # NoneStr /\ pr2 # NoneStr
                 THEN IF pr1 # pr2 THEN FALSE
                      ELSE LET tg1 == extract_tg_group(s1)
                               tg2 == extract_tg_group(s2)
                           IN  tg1 # NoneInt /\ tg2 # NoneInt /\ tg1 = tg2
                 ELSE FALSE

fuzzy_match_or_id(a, b) ==
    LET s1 == Strip(Lower(StripVersion(a)))
        s2 == Strip(Lower(StripVersion(b)))
    IN  IF s1 = s2 THEN TRUE
        ELSE LET pr1 == SearchPR(s1)
                 pr2 == SearchPR(s2)
             IN  IF pr1 # NoneStr /\ pr2 # NoneStr
                 THEN IF pr1 # pr2 THEN FALSE
                      ELSE LET tg1 == extract_tg_group(s1)
                               tg2 == extract_tg_group(s2)
                           IN  tg1 # NoneInt /\ tg2 # NoneInt /\ tg1 = tg2
                 ELSE FALSE

-----------------------------------------------------------------------------
(* Identifier strings the resolver is exercised with *)

PR300005 == <<"P", "R", "3", "0", "0", "0", "0", "5">>
PR400005 == <<"P", "R", "4", "0", "0", "0", "0", "5">>
TG0001 == <<"T", "G", "0", "0", "0", "1">>
TG000101 == <<"T", "G", "0", "0", "0", "1", "0", "1">>
TG001001 == <<"T", "G", "0", "0", "1", "0", "0", "1">>
TG001802 == <<"T", "G", "0", "0", "1", "8", "0", "2">>
TG18 == <<"T", "G", "1", "8">>
V0300 == <<"_", "V", "0", "3", "0", "0">>
v0300 == <<"_", "v", "0", "3", "0", "0">>
Sep == <<"_">>

PRParts == {<<>>, PR300005, Lower(PR300005), PR400005}
TGParts == {<<>>, TG0001, TG000101, TG001001, TG001802, TG18, Lower(TG0001)}
VParts == {<<>>, V0300, v0300}

\* PR<digits>_TG<digits>[_V<digits>] in either letter case, and the
\* identifiers that lack one of the two segments
Join(p, t) == IF p = <<>> \/ t = <<>> THEN p \o t ELSE p \o Sep \o t

OrIds ==
    {Join(p, t) \o v : p \in PRParts, t \in TGParts, v \in VParts}
    \cup {PR300005 \o Sep \o TG0001 \o <<" ">>,
          PR300005 \o Sep \o TG0001 \o V0300 \o <<"\n">>,
          <<"n", "a", "n">>}

Arg(i) == IF i = 1 THEN or_id1 ELSE or_id2

InitResolver ==
    /\ or_id1 \in OrIds
    /\ or_id2 \in OrIds
    /\ fm_result = {}
    /\ tg_result = Unset
    /\ IdlePath
    /\ IdleLookup
    /\ IdleOutlier
    /\ IdleCatalog
    /\ IdleLoader
    /\ IdleStats
    /\ IdleCache
    /\ IdleNoise
    /\ IdlePair
    /\ IdleAccess
    /\ IdleEquiv

\* one call fuzzy_match_or_id(Arg(i), Arg(j))
FuzzyMatch(i, j) ==
    /\ \A c \in fm_result : <<c[1], c[2]>> # <<i, j>>
    /\ fm_result' = fm_result \cup {<<i, j, fuzzy_match_or_id(Arg(i), Arg(j))>>}
    /\ UNCHANGED <<or_id1, or_id2, tg_result, notResolver>>

CallPairs == {<<1, 2>>, <<2, 1>>, <<1, 1>>}

NextResolver == \E c \in CallPairs : FuzzyMatch(c[1], c[2])

SpecResolver == InitResolver /\ [][NextResolver]_vars

InitTgGroup ==
    /\ or_id1 \in OrIds
    /\ or_id2 = <<>>
    /\ fm_result = {}
    /\ tg_result = Unset
    /\ IdlePath
    /\ IdleLookup
    /\ IdleOutlier
    /\ IdleCatalog
    /\ IdleLoader
    /\ IdleStats
    /\ IdleCache
    /\ IdleNoise
    /\ IdlePair
    /\ IdleAccess
    /\ IdleEquiv

\* one call extract_tg_group(or_id1)
ExtractTgGroup ==
    /\ tg_result = Unset
    /\ tg_result' = Ret(extract_tg_group(or_id1))
    /\ UNCHANGED <<or_id1, or_id2, fm_result, notResolver>>

NextTgGroup == ExtractTgGroup

SpecTgGroup == InitTgGroup /\ [][NextTgGroup]_vars

-----------------------------------------------------------------------------
(* Claims about the identity resolver *)

\* the version suffix _V<digits> removed without regard to letter case,
\* from an identifier already lower-cased and trimmed
StripVersionAnyCase(s) ==
    LET hits == {p \in 1..(Len(s) - 2) :
                    /\ s[p] = "_"
                    /\ s[p + 1] = "v"
                    /\ \A k \in (p + 2)..Len(s) : IsDigit(s[k])}
    IN  IF hits = {} THEN s
        ELSE SubSeq(s, 1, (CHOOSE q \in hits : \A r \in hits : q <= r) - 1)

SameModuloVersion(a, b) ==
    StripVersionAnyCase(Strip(Lower(a))) = StripVersionAnyCase(Strip(Lower(b)))

SamePRAndGroup(a, b) ==
    /\ SearchPR(Lower(a)) # NoneStr
    /\ SearchPR(Lower(a)) = SearchPR(Lower(b))
    /\ extract_tg_group(a) # NoneInt
    /\ extract_tg_group(a) = extract_tg_group(b)

Called(i, j, r) == <<i, j, r>> \in fm_result

\* C1: fuzzy_match_or_id(a, b) is True exactly when a and b are identical
\* after removing a trailing version suffix, both ignoring letter case, or
\* both hold the same PR<digits> segment and the same target group number;
\* PR300005_TG0001 matches PR300005_TG000101 and matches neither
\* PR300005_TG001001 nor PR400005_TG0001.
C1_MatchExactlyWhen ==
    \A c \in fm_result :
        LET a == Arg(c[1])
            b == Arg(c[2])
        IN  /\ c[3] = (SameModuloVersion(a, b) \/ SamePRAndGroup(a, b))
            /\ (a = PR300005 \o Sep \o TG0001 /\ b = PR300005 \o Sep \o TG000101)
                   => c[3] = TRUE
            /\ (a = PR300005 \o Sep \o TG0001 /\ b = PR300005 \o Sep \o TG001001)
                   => c[3] = FALSE
            /\ (a = PR300005 \o Sep \o TG0001 /\ b = PR400005 \o Sep \o TG0001)
                   => c[3] = FALSE

RECURSIVE LeftValue(_, _)
LeftValue(d, acc) ==
    IF d = <<>> THEN acc ELSE LeftValue(Tail(d), 10 * acc + DigitVal(Head(d)))

\* s holds TG (in either case) followed by the maximal digit run d, and no
\* TG<digit> starts further left
FirstTGRun(s, i, d) ==
    /\ i \in 1..(Len(s) - 2)
    /\ Lower(SubSeq(s, i, i + 1)) = <<"t", "g">>
    /\ d # <<>>
    /\ \A k \in 1..Len(d) : IsDigit(d[k])
    /\ SubSeq(s, i + 2, i + 1 + Len(d)) = d
    /\ (i + 2 + Len(d) <= Len(s)) => ~IsDigit(s[i + 2 + Len(d)])
    /\ \A j \in 1..(i - 1) :
           ~(Lower(SubSeq(s, j, j + 1)) = <<"t", "g">> /\ IsDigit(s[j + 2]))

HasTGRun(s) ==
    \E i \in 1..(Len(s) - 2) :
        Lower(SubSeq(s, i, i + 1)) = <<"t", "g">> /\ IsDigit(s[i + 2])

\* C3: extract_tg_group returns the value of the whole digit run after TG
\* when the run has at most 4 digits, the value of its first 4 digits when
\* it is longer (TG0001 -> 1, TG000101 -> 1, TG001001 -> 10, TG001802 -> 18),
\* and None when the string holds no TG<digits>.
C3_TargetGroup ==
    tg_result # Unset =>
        LET n == tg_result[2]
            s == or_id1
        IN  /\ \A i \in 1..Len(s) : \A m \in 1..(Len(s) - i - 1) :
                   LET d == SubSeq(s, i + 2, i + 1 + m)
                   IN  FirstTGRun(s, i, d) =>
                           n = IF m <= 4 THEN LeftValue(d, 0)
                               ELSE LeftValue(SubSeq(d, 1, 4), 0)
            /\ ~HasTGRun(s) => n = NoneInt
            /\ HasTGRun(s) => n # NoneInt
            /\ s = TG0001 => n = 1
            /\ s = TG000101 => n = 1
            /\ s = TG001001 => n = 10
            /\ s = TG001802 => n = 18

\* the long format was evaluated: group 10 of an 8-digit run
C3_Witness ==
    /\ or_id1 = PR300005 \o Sep \o TG001001 \o V0300
    /\ tg_result = Ret(10)

-----------------------------------------------------------------------------
(* get_or_id_from_filepath: data_loader.py *)

\* str.replace(old, new) for one-character old and new
ReplaceChar(s, old, new) == [i \in 1..Len(s) |-> IF s[i] = old THEN new ELSE s[i]]

\* str.split(sep) for a one-character separator: the pieces between the
\* separators, empty pieces included
RECURSIVE Split(_, _)
Split(s, sep) ==
    LET cuts == {i \in 1..Len(s) : s[i] = sep}
    IN  IF cuts = {} THEN <<s>>
        ELSE LET c == CHOOSE i \in cuts : \A j \in cuts : i <= j
             IN  <<SubSeq(s, 1, c - 1)>> \o Split(SubSeq(s, c + 1, Len(s)), sep)

\* where PR\d+_TG\d+ matches at position i of part: the end of the match,
\* 0 when it does not match there.  P, R, T, G are matched as written.
OrIdMatchEnd(part, i) ==
    IF /\ i + 2 <= Len(part)
       /\ part[i] = "P"
       /\ part[i + 1] = "R"
       /\ IsDigit(part[i + 2])
    THEN LET e == RunEnd(part, i + 2)
         IN  IF /\ e + 4 <= Len(part)
                /\ part[e + 1] = "_"
                /\ part[e + 2] = "T"
                /\ part[e + 3] = "G"
                /\ IsDigit(part[e + 4])
             THEN RunEnd(part, e + 4)
             ELSE 0
    ELSE 0

\* re.search(r'(PR\d+_TG\d+)', part): the matched text, NoneStr without match
SearchOrId(part) ==
    LET hits == {i \in 1..Len(part) : OrIdMatchEnd(part, i) # 0}
    IN  IF hits = {} THEN NoneStr
        ELSE LET i == CHOOSE h \in hits : \A j \in hits : h <= j
             IN  SubSeq(part, i, OrIdMatchEnd(part, i))

\* the loop over path_parts, from part k on
RECURSIVE FirstOrId(_, _)
FirstOrId(path_parts, k) ==
    IF k > Len(path_parts) THEN NoneStr
    ELSE LET m == SearchOrId(path_parts[k])
         IN  IF m # NoneStr THEN m ELSE FirstOrId(path_parts, k + 1)

get_or_id_from_filepath(fp) ==
    FirstOrId(Split(ReplaceChar(fp, "\\", "/"), "/"), 1)

-----------------------------------------------------------------------------
(* Paths get_or_id_from_filepath is exercised with *)

MaxDepth == 3

DirData == <<"D", "A", "T", "A">>
DirVisit == PR300005 \o Sep \o TG000101 \o V0300
DirVisitLower == Lower(PR300005 \o Sep \o TG000101)
DirOther == PR400005 \o Sep \o TG0001
DirNoGroup == PR300005 \o Sep \o <<"T", "G">>
FileGeneral == <<"C", "H", "_">> \o PR300005 \o Sep \o TG001802 \o <<"_", "g", "e", "n", "e", "r", "a", "l", ".", "f", "i", "t", "s">>
FilePlain == <<"f", "i", "l", "e", ".", "f", "i", "t", "s">>

PathParts ==
    {DirData, DirVisit, DirVisitLower, DirOther, DirNoGroup, FileGeneral, FilePlain}

RECURSIVE JoinPath(_, _)
JoinPath(parts, sep) ==
    IF Len(parts) = 1 THEN parts[1]
    ELSE parts[1] \o <<sep>> \o JoinPath(Tail(parts), sep)

PartSeqs == UNION {[1..n -> PathParts] : n \in 1..MaxDepth}

FilePaths == {JoinPath(ps, sep) : ps \in PartSeqs, sep \in {"/", "\\"}}

InitPath ==
    /\ filepath \in FilePaths
    /\ path_result = Unset
    /\ IdleResolver
    /\ IdleLookup
    /\ IdleOutlier
    /\ IdleCatalog
    /\ IdleLoader
    /\ IdleStats
    /\ IdleCache
    /\ IdleNoise
    /\ IdlePair
    /\ IdleAccess
    /\ IdleEquiv

\* one call get_or_id_from_filepath(filepath)
GetOrIdFromFilepath ==
    /\ path_result = Unset
    /\ path_result' = Ret(get_or_id_from_filepath(filepath))
    /\ UNCHANGED <<filepath, notPath>>

NextPath == GetOrIdFromFilepath

SpecPath == InitPath /\ [][NextPath]_vars

\* a component holds PR<digits>_TG<digits> with the letters in either case:
\* the text it holds, NoneStr when it holds none
OrIdAnyCase(part) ==
    LET up == [i \in 1..Len(part) |->
                  IF part[i] \in {"p", "r", "t", "g"}
                  THEN UpperChars[CHOOSE k \in 1..26 : LowerChars[k] = part[i]]
                  ELSE part[i]]
        hits == {i \in 1..Len(part) : OrIdMatchEnd(up, i) # 0}
    IN  IF hits = {} THEN NoneStr
        ELSE LET i == CHOOSE h \in hits : \A j \in hits : h <= j
             IN  SubSeq(part, i, OrIdMatchEnd(up, i))

\* C4: get_or_id_from_filepath returns the PR<digits>_TG<digits> substring
\* of the first path component that holds one, the letters PR and TG matched
\* in either case, and None exactly when no component holds one.
C4_FirstComponentAnyCase ==
    path_result # Unset =>
        LET parts == Split(ReplaceChar(filepath, "\\", "/"), "/")
            holding == {k \in 1..Len(parts) : OrIdAnyCase(parts[k]) # NoneStr}
        IN  IF holding = {} THEN path_result[2] = NoneStr
            ELSE path_result[2] =
                     OrIdAnyCase(parts[CHOOSE k \in holding : \A j \in holding : k <= j])

-----------------------------------------------------------------------------
(* get_target_from_or_id: data_loader.py *)

\* an empty Target cell: pandas reads it as the float NaN
NaNCell == <<"NaN">>

\* a slip in the scan: the last equivalent row wins
RECURSIVE ScanTargetsBackward(_, _, _)
ScanTargetsBackward(df, or_id, k) ==
    IF k < 1 \/ k > Len(df) THEN NoneStr
    ELSE IF fuzzy_match_or_id(StripVersion(or_id), Strip(df[Len(df) + 1 - k].OrId))
         THEN df[Len(df) + 1 - k].Target
         ELSE ScanTargetsBackward(df, or_id, k + 1)

\* the loop over targets_df.iterrows(), from row k on; an empty table has no
\* rows, so the early return for targets_df.empty is the case k > Len(df)
RECURSIVE ScanTargets(_, _, _)
ScanTargets(df, or_id, k) ==
    IF k < 1 \/ k > Len(df) THEN NoneStr
    ELSE IF fuzzy_match_or_id(StripVersion(or_id), Strip(df[k].OrId))
         THEN df[k].Target
         ELSE ScanTargets(df, or_id, k + 1)

get_target_from_or_id(df, or_id) == ScanTargets(df, or_id, 1)

-----------------------------------------------------------------------------
(* Reference tables get_target_from_or_id is exercised with *)

MaxRows == 2

TargetNames == {<<"HD1">>, <<"HD2">>, NaNCell}

TableOrIds ==
    {PR300005 \o Sep \o TG0001,
     PR300005 \o Sep \o TG000101 \o V0300,
     PR300005 \o Sep \o TG001001,
     Lower(PR400005 \o Sep \o TG0001) \o <<" ">>,
     <<"n", "a", "n">>}

TableRows == [Target : TargetNames, OrId : TableOrIds]

Tables == UNION {[1..n -> TableRows] : n \in 0..MaxRows}

Queries ==
    {PR300005 \o Sep \o TG000101,
     PR300005 \o Sep \o TG0001 \o V0300,
     PR300005 \o Sep \o TG001001,
     PR400005 \o Sep \o TG0001,
     PR400005 \o Sep \o TG001802}

InitLookup ==
    /\ targets_df \in Tables
    /\ query \in Queries
    /\ lookup_result = Unset
    /\ IdleResolver
    /\ IdlePath
    /\ IdleOutlier
    /\ IdleCatalog
    /\ IdleLoader
    /\ IdleStats
    /\ IdleCache
    /\ IdleNoise
    /\ IdlePair
    /\ IdleAccess
    /\ IdleEquiv

\* one call get_target_from_or_id(query)
GetTargetFromOrId ==
    /\ lookup_result = Unset
    /\ lookup_result' = Ret(get_target_from_or_id(targets_df, query))
    /\ UNCHANGED <<targets_df, query, notLookup>>

NextLookup == GetTargetFromOrId

SpecLookup == InitLookup /\ [][NextLookup]_vars

\* the rows of the table whose OR ID is equivalent to the query
EquivalentRows(df, or_id) ==
    {k \in 1..Len(df) : fuzzy_match_or_id(StripVersion(or_id), Strip(df[k].OrId))}

\* C5: get_target_from_or_id returns the Target of the earliest row of the
\* reference table whose OR ID is equivalent to the query with its version
\* suffix stripped, and None when no row is equivalent or the table is empty.
C5_FirstMatchWins ==
    lookup_result # Unset =>
        LET rows == EquivalentRows(targets_df, query)
        IN  /\ rows = {} => lookup_result[2] = NoneStr
            /\ \A k \in rows :
                   (\A j \in rows : k <= j) => lookup_result[2] = targets_df[k].Target

\* two rows are equivalent to the query and carry different targets
C5_Witness ==
    /\ lookup_result # Unset
    /\ Len(targets_df) = 2
    /\ EquivalentRows(targets_df, query) = {1, 2}
    /\ targets_df[1].Target = <<"HD2">>
    /\ targets_df[2].Target = <<"HD1">>
    /\ lookup_result[2] = <<"HD2">>

-----------------------------------------------------------------------------
(* Floating-point values *)

(***************************************************************************)
(* A float is <<"fin", n>>, <<"inf", 1>>, <<"inf", -1>> or <<"nan", 0>>.   *)
(* A finite value is held exactly, as the integer n in units of 1/Scale;   *)
(* Scale is chosen so that the medians, the MAD, the factor 1.4826 and the *)
(* half-integer thresholds of the samples below are all whole units.       *)
(* Rounding of the binary representation is not modelled.                  *)
(***************************************************************************)

\* the factor 1.4826 of robust_sigma, as SigmaNum / SigmaDen
SigmaNum == 14826
SigmaDen == 10000

Scale == 8 * SigmaDen

Fin(n) == <<"fin", n>>
NaN == <<"nan", 0>>
PosInf == <<"inf", 1>>
NegInf == <<"inf", -1>>

IsNaN(x) == x[1] = "nan"
IsFin(x) == x[1] = "fin"
IsInf(x) == x[1] = "inf"

\* -x
FNeg(x) == IF IsNaN(x) THEN NaN ELSE <<x[1], 0 - x[2]>>

\* x + y
FAdd(x, y) ==
    IF IsNaN(x) \/ IsNaN(y) THEN NaN
    ELSE IF IsInf(x) /\ IsInf(y) THEN (IF x[2] = y[2] THEN x ELSE NaN)
    ELSE IF IsInf(x) THEN x
    ELSE IF IsInf(y) THEN y
    ELSE Fin(x[2] + y[2])

\* x - y
FSub(x, y) == FAdd(x, FNeg(y))

\* abs(x)
FAbs(x) == IF IsNaN(x) THEN NaN ELSE <<x[1], IF x[2] < 0 THEN 0 - x[2] ELSE x[2]>>

\* x * num / den for integers num >= 0 and den > 0; the division comes first
\* when it is exact, which keeps the products small
FMul(x, num, den) ==
    IF IsNaN(x) THEN NaN
    ELSE IF IsInf(x) THEN (IF num = 0 THEN NaN ELSE x)
    ELSE IF x[2] % den = 0 THEN Fin((x[2] \div den) * num)
    ELSE Fin((x[2] * num) \div den)

\* x <= y; every comparison with NaN is False
FLe(x, y) ==
    IF IsNaN(x) \/ IsNaN(y) THEN FALSE
    ELSE IF IsInf(x) THEN (x[2] = -1 \/ x = y)
    ELSE IF IsInf(y) THEN y[2] = 1
    ELSE x[2] <= y[2]

FLt(x, y) == FLe(x, y) /\ x # y

\* the elements of s picked by the boolean mask m, in order: s[m]
RECURSIVE Compress(_, _)
Compress(s, m) ==
    IF s = <<>> THEN <<>>
    ELSE (IF Head(m) THEN <<Head(s)>> ELSE <<>>) \o Compress(Tail(s), Tail(m))

\* the k-th smallest element of a NaN-free sequence
KthSmallest(s, k) ==
    LET v == CHOOSE i \in 1..Len(s) :
                 /\ Cardinality({j \in 1..Len(s) : FLt(s[j], s[i])}) < k
                 /\ Cardinality({j \in 1..Len(s) : FLe(s[j], s[i])}) >= k
    IN  s[v]

\* the median of a non-empty NaN-free sequence: the middle element, or the
\* mean of the two middle elements
MedianOf(s) ==
    LET n == Len(s)
    IN  IF n % 2 = 1 THEN KthSmallest(s, (n + 1) \div 2)
        ELSE FMul(FAdd(KthSmallest(s, n \div 2), KthSmallest(s, n \div 2 + 1)), 1, 2)

\* np.median: NaN for an empty array and for an array that holds a NaN
np_median(s) ==
    IF s = <<>> \/ \E i \in 1..Len(s) : IsNaN(s[i]) THEN NaN ELSE MedianOf(s)

\* np.nanmedian: the median of the entries that are not NaN
np_nanmedian(s) ==
    LET rest == Compress(s, [i \in 1..Len(s) |-> ~IsNaN(s[i])])
    IN  IF rest = <<>> THEN NaN ELSE MedianOf(rest)

-----------------------------------------------------------------------------
(* Outlier removal: data_loader.py, OUTLIER REMOVAL *)

\* sigma_threshold is held in halves: the slider of the application runs
\* from 1.0 to 5.0 in steps of 0.5, and 3.0 is the default
ThresholdDen == 2

\* robust_sigma = 1.4826 * mad
RobustSigma(data) ==
    LET median == np_nanmedian(data)
        mad == np_median([i \in 1..Len(data) |-> FAbs(FSub(data[i], median))])
    IN  FMul(mad, SigmaNum, SigmaDen)

\* a slip: half the threshold is applied
remove_outliers_array_halved(data, sigma_threshold) ==
    LET median == np_nanmedian(data)
        robust_sigma == RobustSigma(data)
    IN  IF robust_sigma = Fin(0)
        THEN [data |-> data, mask |-> [i \in 1..Len(data) |-> TRUE]]
        ELSE LET lower == FSub(median, FMul(robust_sigma, sigma_threshold, 2 * ThresholdDen))
                 upper == FAdd(median, FMul(robust_sigma, sigma_threshold, 2 * ThresholdDen))
                 mask == [i \in 1..Len(data) |->
                             FLe(lower, data[i]) /\ FLe(data[i], upper)]
             IN  [data |-> Compress(data, mask), mask |-> mask]

\* a slip: the upper bound is exclusive
remove_outliers_array_strict(data, sigma_threshold) ==
    LET median == np_nanmedian(data)
        robust_sigma == RobustSigma(data)
    IN  IF robust_sigma = Fin(0)
        THEN [data |-> data, mask |-> [i \in 1..Len(data) |-> TRUE]]
        ELSE LET lower == FSub(median, FMul(robust_sigma, sigma_threshold, ThresholdDen))
                 upper == FAdd(median, FMul(robust_sigma, sigma_threshold, ThresholdDen))
                 mask == [i \in 1..Len(data) |->
                             FLe(lower, data[i]) /\ FLt(data[i], upper)]
             IN  [data |-> Compress(data, mask), mask |-> mask]

\* a slip: no early return for a zero robust sigma
remove_outliers_array_noguard(data, sigma_threshold) ==
    LET median == np_nanmedian(data)
        robust_sigma == RobustSigma(data)
        lower == FSub(median, FMul(robust_sigma, sigma_threshold, ThresholdDen))
        upper == FAdd(median, FMul(robust_sigma, sigma_threshold, ThresholdDen))
        mask == [i \in 1..Len(data) |-> FLe(lower, data[i]) /\ FLe(data[i], upper)]
    IN  [data |-> Compress(data, mask), mask |-> mask]

\* a slip: the two bounds are joined by "or"
remove_outliers_array_either(data, sigma_threshold) ==
    LET median == np_nanmedian(data)
        robust_sigma == RobustSigma(data)
    IN  IF robust_sigma = Fin(0)
        THEN [data |-> data, mask |-> [i \in 1..Len(data) |-> TRUE]]
        ELSE LET lower == FSub(median, FMul(robust_sigma, sigma_threshold, ThresholdDen))
                 upper == FAdd(median, FMul(robust_sigma, sigma_threshold, ThresholdDen))
                 mask == [i \in 1..Len(data) |->
                             FLe(lower, data[i]) \/ FLe(data[i], upper)]
             IN  [data |-> Compress(data, mask), mask |-> mask]

remove_outliers_array(data, sigma_threshold) ==
    LET median == np_nanmedian(data)
        robust_sigma == RobustSigma(data)
    IN  IF robust_sigma = Fin(0)
        THEN [data |-> data, mask |-> [i \in 1..Len(data) |-> TRUE]]
        ELSE LET lower == FSub(median, FMul(robust_sigma, sigma_threshold, ThresholdDen))
                 upper == FAdd(median, FMul(robust_sigma, sigma_threshold, ThresholdDen))
                 mask == [i \in 1..Len(data) |->
                             FLe(lower, data[i]) /\ FLe(data[i], upper)]
             IN  [data |-> Compress(data, mask), mask |-> mask]


-----------------------------------------------------------------------------
(* Samples remove_outliers_array is exercised with *)

MaxLen == 4

\* the range and the default of the "Sigma Threshold" slider, in halves
SliderMin == 2
SliderMax == 10
SliderDefault == 6

\* the value that lies exactly on the upper bound of the sample 0, 1, x at
\* the default threshold: median 1, MAD 1, upper = 1 + 3 * 1.4826
OnUpperBound == Fin(Scale + 3 * SigmaNum * (Scale \div SigmaDen))

SampleValues ==
    {Fin(0), Fin(Scale), Fin(40 * Scale), OnUpperBound, NaN, PosInf}

\* the MAD of the sample is a whole multiple of SigmaDen units, so that the
\* robust sigma and the bounds are held exactly
ExactSample(s) ==
    LET median == np_nanmedian(s)
        mad == np_median([i \in 1..Len(s) |-> FAbs(FSub(s[i], median))])
    IN  IsFin(mad) => mad[2] % SigmaDen = 0

Samples ==
    {s \in UNION {[1..n -> SampleValues] : n \in 1..MaxLen} : ExactSample(s)}

\* the whole-number thresholds of the slider
Thresholds == {k \in SliderMin..SliderMax : k % ThresholdDen = 0}

InitOutlier ==
    /\ ro_data \in Samples
    /\ ro_threshold \in Thresholds
    /\ ro_result = Unset
    /\ IdleResolver
    /\ IdlePath
    /\ IdleLookup
    /\ IdleCatalog
    /\ IdleLoader
    /\ IdleStats
    /\ IdleCache
    /\ IdleNoise
    /\ IdlePair
    /\ IdleAccess
    /\ IdleEquiv

\* one call remove_outliers_array(ro_data, ro_threshold)
RemoveOutliers ==
    /\ ro_result = Unset
    /\ ro_result' = Ret(remove_outliers_array(ro_data, ro_threshold))
    /\ UNCHANGED <<ro_data, ro_threshold, notOutlier>>

NextOutlier == RemoveOutliers

SpecOutlier == InitOutlier /\ [][NextOutlier]_vars

\* the bounds median -/+ k * robust sigma of the sample held in ro_data
LowerBound ==
    FSub(np_nanmedian(ro_data), FMul(RobustSigma(ro_data), ro_threshold, ThresholdDen))
UpperBound ==
    FAdd(np_nanmedian(ro_data), FMul(RobustSigma(ro_data), ro_threshold, ThresholdDen))

\* the positions of s, in increasing order, that lie in the set keep
RECURSIVE Restrict(_, _, _)
Restrict(s, keep, i) ==
    IF i > Len(s) THEN <<>>
    ELSE IF i \in keep THEN <<s[i]>> \o Restrict(s, keep, i + 1)
    ELSE Restrict(s, keep, i + 1)

Holds(s, x) == \E i \in 1..Len(s) : s[i] = x

\* C8: with a non-zero robust sigma, remove_outliers_array keeps x exactly
\* when median - k*sigma <= x <= median + k*sigma, both bounds inclusive; the
\* mask has the length of the input and is True exactly at the kept
\* positions, and the filtered array is the input restricted to them, in
\* the original order.
C8_KeepsWithinBounds ==
    (ro_result # Unset /\ RobustSigma(ro_data) # Fin(0)) =>
        LET r == ro_result[2]
            kept == {i \in 1..Len(ro_data) :
                        FLe(LowerBound, ro_data[i]) /\ FLe(ro_data[i], UpperBound)}
        IN  /\ Len(r.mask) = Len(ro_data)
            /\ \A i \in 1..Len(ro_data) : r.mask[i] = (i \in kept)
            /\ r.data = Restrict(ro_data, kept, 1)

\* a value that lies exactly on the upper bound was kept
C8_Witness ==
    /\ ro_result # Unset
    /\ ro_threshold = SliderDefault
    /\ ro_data = <<OnUpperBound, Fin(0), Fin(Scale)>>
    /\ UpperBound = OnUpperBound
    /\ \E i \in 1..Len(ro_data) : ro_data[i] = OnUpperBound /\ ro_result[2].mask[i]
    /\ Holds(ro_result[2].data, OnUpperBound)

\* C9: with a robust sigma of exactly zero, remove_outliers_array returns the
\* input unchanged and a mask that is True at every position, for every
\* sigma_threshold.
C9_ZeroSigmaUnchanged ==
    (ro_result # Unset /\ RobustSigma(ro_data) = Fin(0)) =>
        /\ ro_result[2].data = ro_data
        /\ ro_result[2].mask = [i \in 1..Len(ro_data) |-> TRUE]

\* a sample with MAD 0 that is not constant came back whole
C9_Witness ==
    /\ ro_result # Unset
    /\ ro_data = <<Fin(Scale), Fin(Scale), Fin(40 * Scale)>>
    /\ RobustSigma(ro_data) = Fin(0)
    /\ ro_result[2].data = ro_data

\* how far apart a value must lie to count as extreme: more than FarFactor
\* times the spread of the other values, and more than FarFactor units
FarFactor == 10

Distance(x, y) == IF x <= y THEN y - x ELSE x - y

\* s[i] is extreme: every value is finite and s[i] lies far from all
\* the other values
Extreme(s, i) ==
    /\ \A j \in 1..Len(s) : IsFin(s[j])
    /\ \A j \in 1..Len(s) \ {i} :
           /\ Distance(s[i][2], s[j][2]) > FarFactor * Scale
           /\ \A a, b \in 1..Len(s) \ {i} :
                  Distance(s[i][2], s[j][2]) > FarFactor * Distance(s[a][2], s[b][2])

OneExtreme(s) ==
    /\ Len(s) >= 3
    /\ Cardinality({i \in 1..Len(s) : Extreme(s, i)}) = 1

ExtremeValue(s) == s[CHOOSE i \in 1..Len(s) : Extreme(s, i)]

\* C10 as stated: for every sample of at least 3 values with exactly one
\* extreme value and sigma_threshold = 3, the filtered array does not hold
\* the extreme value.
C10_ExtremeRemoved ==
    (ro_result # Unset /\ ro_threshold = SliderDefault /\ OneExtreme(ro_data)) =>
        ~Holds(ro_result[2].data, ExtremeValue(ro_data))

\* C10 amended: the same, for the samples whose robust sigma is not zero;
\* with a robust sigma of zero the sample comes back whole, the extreme
\* value included.
C10_ExtremeRemovedUnlessZeroSigma ==
    (ro_result # Unset /\ ro_threshold = SliderDefault /\ OneExtreme(ro_data)) =>
        IF RobustSigma(ro_data) # Fin(0)
        THEN ~Holds(ro_result[2].data, ExtremeValue(ro_data))
        ELSE ro_result[2].data = ro_data

\* the extreme value 40 was dropped from 0, 1, 40
C10_Witness ==
    /\ ro_result # Unset
    /\ ro_threshold = SliderDefault
    /\ ro_data = <<Fin(0), Fin(40 * Scale), Fin(Scale)>>
    /\ OneExtreme(ro_data)
    /\ ro_result[2].data = <<Fin(0), Fin(Scale)>>

-----------------------------------------------------------------------------
(* Data sources: config.py, DATA_SOURCES *)

Source_DRP_lightcurve ==
    [ directory |->
          <<".", ".", "/", "D", "A", "T", "A", "/", "l", "i", "g", "h", "t",
            "c", "u", "r", "v", "e", "_", "d", "a", "t", "a">>,
      pattern |->
          <<"*", "*", "/", "*", "R", "2", "5", "_", "V", "*", ".", "f", "i",
            "t", "s">>,
      exclude_pattern |->
          <<"R", "2", "5", "_", "F", "i", "x", "e", "d">>,
      extension |-> 1,
      time_column |-> "UTC_TIME",
      target_header |-> "TARGNAME" ]

Source_RPC_lightcurve ==
    [ directory |->
          <<".", ".", "/", "D", "A", "T", "A", "/", "l", "i", "g", "h", "t",
            "c", "u", "r", "v", "e", "_", "d", "a", "t", "a">>,
      pattern |->
          <<"*", "*", "/", "*", "R", "2", "5", "_", "V", "*", ".", "f", "i",
            "t", "s">>,
      exclude_pattern |->
          <<"R", "2", "5", "_", "F", "i", "x", "e", "d">>,
      extension |-> 1,
      time_column |-> "UTC_TIME",
      target_header |-> "TARGNAME" ]

Source_PIPE_lightcurve_sa ==
    [ directory |->
          <<".", ".", "/", "D", "A", "T", "A", "/", "P", "I", "P", "E", "_",
            "l", "i", "g", "h", "t", "c", "u", "r", "v", "e">>,
      pattern |->
          <<"*", "*", "/", "*", "_", "s", "a", ".", "f", "i", "t", "s">>,
      exclude_pattern |->
          <<"i", "m", ".", "f", "i", "t", "s">>,
      extension |-> 1,
      time_column |-> "MJD_TIME",
      time_format |-> "mjd",
      target_header |-> "TARGNAME" ]

Source_PIPE_lightcurve_im ==
    [ directory |->
          <<".", ".", "/", "D", "A", "T", "A", "/", "P", "I", "P", "E", "_",
            "l", "i", "g", "h", "t", "c", "u", "r", "v", "e">>,
      pattern |->
          <<"*", "*", "/", "*", "_", "i", "m", ".", "f", "i", "t", "s">>,
      exclude_pattern |->
          <<"s", "a", ".", "f", "i", "t", "s">>,
      extension |-> 1,
      time_column |-> "MJD_TIME",
      time_format |-> "mjd",
      target_header |-> "TARGNAME" ]

Source_sci_raw_metadata ==
    [ directory |->
          <<".", ".", "/", "D", "A", "T", "A", "/", "s", "c", "i", "_", "r",
            "a", "w", "_", "d", "a", "t", "a">>,
      pattern |->
          <<"*", "*", "/", "*", "S", "C", "I", "_", "R", "A", "W", "_", "S",
            "u", "b", "A", "r", "r", "a", "y", "*", ".", "f", "i",
            "t", "s">>,
      exclude_patterns |->
          <<<<"_", "c", "e", "n", "t", "r", "o", "i", "d", "_", "s", "t", "a",
              "t">>,
            <<"_", "c", "o", "n", "t", "_", "d", "a", "t", "a">>,
            <<"_", "e", "e", "9", "0">>,
            <<"_", "g", "e", "n", "e", "r", "a", "l">>>>,
      extension_name |->
          <<"S", "C", "I", "_", "R", "A", "W", "_", "I", "m", "a", "g", "e", "M", "e", "t", "a", "d", "a", "t", "a">>,
      time_column |-> "UTC_TIME",
      target_header |-> "TARGNAME" ]

Source_centroid_subarray ==
    [ directory |->
          <<".", ".", "/", "D", "A", "T", "A", "/", "g", "e", "n", "e", "r",
            "a", "l", "_", "r", "e", "p", "o", "r", "t">>,
      pattern |->
          <<"*", "*", "/", "*", "_", "c", "e", "n", "t", "r", "o", "i", "d",
            "s", ".", "f", "i", "t", "s">>,
      exclude_patterns |->
          <<<<"_", "c", "e", "n", "t", "r", "o", "i", "d", "_", "s", "t", "a",
              "t">>>>,
      extension |-> 1,
      time_column |-> "OBS_MJD",
      time_format |-> "mjd",
      target_header |-> "TARGNAME" ]

Source_cont_data ==
    [ directory |->
          <<".", ".", "/", "D", "A", "T", "A", "/", "g", "e", "n", "e", "r",
            "a", "l", "_", "r", "e", "p", "o", "r", "t">>,
      pattern |->
          <<"*", "*", "/", "*", "_", "c", "o", "n", "t", "_", "d", "a", "t",
            "a", ".", "f", "i", "t", "s">>,
      extension |-> 1,
      time_column |-> "MJD_TIME",
      time_format |-> "mjd",
      target_header |-> "TARGNAME" ]

Source_ee90_data ==
    [ directory |->
          <<".", ".", "/", "D", "A", "T", "A", "/", "g", "e", "n", "e", "r",
            "a", "l", "_", "r", "e", "p", "o", "r", "t">>,
      pattern |->
          <<"*", "*", "/", "*", "_", "e", "e", "9", "0", ".", "f", "i", "t",
            "s">>,
      extension |-> 1,
      time_column |-> "EE90_MJD",
      time_format |-> "mjd",
      target_header |-> "TARGNAME" ]

Source_general_report ==
    [ directory |->
          <<".", ".", "/", "D", "A", "T", "A", "/", "g", "e", "n", "e", "r",
            "a", "l", "_", "r", "e", "p", "o", "r", "t">>,
      pattern |->
          <<"*", "*", "/", "*", "_", "g", "e", "n", "e", "r", "a", "l", ".",
            "f", "i", "t", "s">>,
      extension |-> 1,
      target_header |-> "TARGNAME" ]

DATA_SOURCES ==
    ("DRP_lightcurve" :> Source_DRP_lightcurve) @@
    ("RPC_lightcurve" :> Source_RPC_lightcurve) @@
    ("PIPE_lightcurve_sa" :> Source_PIPE_lightcurve_sa) @@
    ("PIPE_lightcurve_im" :> Source_PIPE_lightcurve_im) @@
    ("sci_raw_metadata" :> Source_sci_raw_metadata) @@
    ("centroid_subarray" :> Source_centroid_subarray) @@
    ("cont_data" :> Source_cont_data) @@
    ("ee90_data" :> Source_ee90_data) @@
    ("general_report" :> Source_general_report)

-----------------------------------------------------------------------------
(* File discovery: data_loader.py, FILE DISCOVERY *)

\* sub in s, for strings
Contains(s, sub) ==
    \E i \in 1..(Len(s) - Len(sub) + 1) : SubSeq(s, i, i + Len(sub) - 1) = sub

\* fnmatch of one path component against a pattern of literal characters
\* and *
RECURSIVE Fnmatch(_, _)
Fnmatch(pat, name) ==
    IF pat = <<>> THEN name = <<>>
    ELSE IF Head(pat) = "*"
         THEN \/ Fnmatch(Tail(pat), name)
              \/ name # <<>> /\ Fnmatch(pat, Tail(name))
         ELSE /\ name # <<>>
              /\ Head(pat) = Head(name)
              /\ Fnmatch(Tail(pat), Tail(name))

HasMagic(pat) == \E i \in 1..Len(pat) : pat[i] = "*"

\* glob skips the names that start with a dot
Hidden(name) == name # <<>> /\ Head(name) = "."

\* the number of ways the components pcs of a glob pattern match the
\* components fcs of a file path, ** standing for any number of directories:
\* glob(..., recursive=True) lists a path once for each of them
RECURSIVE GlobCount(_, _)
GlobCount(pcs, fcs) ==
    IF pcs = <<>> THEN (IF fcs = <<>> THEN 1 ELSE 0)
    ELSE IF Head(pcs) = <<"*", "*">>
         THEN GlobCount(Tail(pcs), fcs)
              + (IF Len(fcs) > 1 /\ ~Hidden(Head(fcs))
                 THEN GlobCount(pcs, Tail(fcs)) ELSE 0)
         ELSE IF fcs = <<>> THEN 0
         ELSE IF HasMagic(Head(pcs))
              THEN (IF /\ Hidden(Head(fcs)) => Head(Head(pcs)) = "."
                       /\ Fnmatch(Head(pcs), Head(fcs))
                    THEN GlobCount(Tail(pcs), Tail(fcs)) ELSE 0)
              ELSE (IF Head(pcs) = Head(fcs)
                    THEN GlobCount(Tail(pcs), Tail(fcs)) ELSE 0)

\* a sequence that lists n times the element x
Repeat(x, n) == [i \in 1..n |-> x]

\* the elements of a finite set in some fixed order
RECURSIVE SetToSeq(_)
SetToSeq(S) ==
    IF S = {} THEN <<>>
    ELSE LET x == CHOOSE y \in S : TRUE IN <<x>> \o SetToSeq(S \ {x})

\* glob.glob(pattern, recursive=True) over the files of the tree; the base
\* directory has to exist
RECURSIVE GlobList(_, _)
GlobList(pattern, paths) ==
    IF paths = <<>> THEN <<>>
    ELSE Repeat(Head(paths), GlobCount(Split(pattern, "/"), Split(Head(paths), "/")))
         \o GlobList(pattern, Tail(paths))

glob(pattern, tree) == GlobList(pattern, SetToSeq(tree))

Elements(s) == {s[i] : i \in 1..Len(s)}

\* [f for f in fits_files if exclude not in f]
RECURSIVE Excluding(_, _)
Excluding(fits_files, exclude) ==
    IF fits_files = <<>> THEN <<>>
    ELSE (IF Contains(Head(fits_files), exclude) THEN <<>> ELSE <<Head(fits_files)>>)
         \o Excluding(Tail(fits_files), exclude)

RECURSIVE ExcludingAll(_, _)
ExcludingAll(fits_files, excludes) ==
    IF excludes = <<>> THEN fits_files
    ELSE ExcludingAll(Excluding(fits_files, Head(excludes)), Tail(excludes))

\* the files found by the two glob calls, duplicates included
FoundFiles(source_config, tree) ==
    glob(source_config.directory \o <<"/">> \o source_config.pattern, tree)
    \o glob(source_config.directory \o <<"/", "*", "*", "/">> \o source_config.pattern, tree)

\* the two exclusion steps
ApplyExclusions(source_config, fits_files) ==
    LET step1 == IF "exclude_pattern" \in DOMAIN source_config
                 THEN Excluding(fits_files, source_config.exclude_pattern)
                 ELSE fits_files
    IN  IF "exclude_patterns" \in DOMAIN source_config
        THEN ExcludingAll(step1, source_config.exclude_patterns)
        ELSE step1

\* the orders list(set(x)) may produce: the elements of x, each once
IsSetOrder(order, x) ==
    /\ Elements(order) = Elements(x)
    /\ Len(order) = Cardinality(Elements(x))

\* a slip: the duplicates of the two glob calls are kept
get_fits_files_dup(source_config, tree, order) ==
    ApplyExclusions(source_config, FoundFiles(source_config, tree))

\* get_fits_files; order is the order in which list(set(fits_files)) lists
\* the files found
get_fits_files(source_config, tree, order) ==
    ApplyExclusions(source_config, order)


-----------------------------------------------------------------------------
(* File trees get_fits_files is exercised with *)

\* ../DATA/lightcurve_data/PR300005_TG000101_V0300/CH_R25_V0300.fits
FileVisit ==
    <<".", ".", "/", "D", "A", "T", "A", "/", "l", "i", "g", "h", "t",
      "c", "u", "r", "v", "e", "_", "d", "a", "t", "a", "/", "P",
      "R", "3", "0", "0", "0", "0", "5", "_", "T", "G", "0", "0",
      "0", "1", "0", "1", "_", "V", "0", "3", "0", "0", "/", "C",
      "H", "_", "R", "2", "5", "_", "V", "0", "3", "0", "0", ".",
      "f", "i", "t", "s">>

\* ../DATA/lightcurve_data/CH_R25_V0300.fits
FileTop ==
    <<".", ".", "/", "D", "A", "T", "A", "/", "l", "i", "g", "h", "t",
      "c", "u", "r", "v", "e", "_", "d", "a", "t", "a", "/", "C",
      "H", "_", "R", "2", "5", "_", "V", "0", "3", "0", "0", ".",
      "f", "i", "t", "s">>

\* ../DATA/lightcurve_data/PR300005_TG000101_V0300/CH_R25_Fixed_R25_V0300.fits
FileFixed ==
    <<".", ".", "/", "D", "A", "T", "A", "/", "l", "i", "g", "h", "t",
      "c", "u", "r", "v", "e", "_", "d", "a", "t", "a", "/", "P",
      "R", "3", "0", "0", "0", "0", "5", "_", "T", "G", "0", "0",
      "0", "1", "0", "1", "_", "V", "0", "3", "0", "0", "/", "C",
      "H", "_", "R", "2", "5", "_", "F", "i", "x", "e", "d", "_",
      "R", "2", "5", "_", "V", "0", "3", "0", "0", ".", "f", "i",
      "t", "s">>

\* ../DATA/lightcurve_data/R25_Fixed/CH_R25_V0300.fits
FileFixedDir ==
    <<".", ".", "/", "D", "A", "T", "A", "/", "l", "i", "g", "h", "t",
      "c", "u", "r", "v", "e", "_", "d", "a", "t", "a", "/", "R",
      "2", "5", "_", "F", "i", "x", "e", "d", "/", "C", "H", "_",
      "R", "2", "5", "_", "V", "0", "3", "0", "0", ".", "f", "i",
      "t", "s">>

\* ../DATA/lightcurve_data/.cache/CH_R25_V0300.fits
FileHiddenDir ==
    <<".", ".", "/", "D", "A", "T", "A", "/", "l", "i", "g", "h", "t",
      "c", "u", "r", "v", "e", "_", "d", "a", "t", "a", "/", ".",
      "c", "a", "c", "h", "e", "/", "C", "H", "_", "R", "2", "5",
      "_", "V", "0", "3", "0", "0", ".", "f", "i", "t", "s">>

\* ../DATA/sci_raw_data/PR300005_TG000101_V0300/CH_SCI_RAW_SubArray_V0300.fits
FileSciRaw ==
    <<".", ".", "/", "D", "A", "T", "A", "/", "s", "c", "i", "_", "r",
      "a", "w", "_", "d", "a", "t", "a", "/", "P", "R", "3", "0",
      "0", "0", "0", "5", "_", "T", "G", "0", "0", "0", "1", "0",
      "1", "_", "V", "0", "3", "0", "0", "/", "C", "H", "_", "S",
      "C", "I", "_", "R", "A", "W", "_", "S", "u", "b", "A", "r",
      "r", "a", "y", "_", "V", "0", "3", "0", "0", ".", "f", "i",
      "t", "s">>

\* ../DATA/sci_raw_data/PR300005_TG000101_V0300/CH_SCI_RAW_SubArray_general.fits
FileSciRawGeneral ==
    <<".", ".", "/", "D", "A", "T", "A", "/", "s", "c", "i", "_", "r",
      "a", "w", "_", "d", "a", "t", "a", "/", "P", "R", "3", "0",
      "0", "0", "0", "5", "_", "T", "G", "0", "0", "0", "1", "0",
      "1", "_", "V", "0", "3", "0", "0", "/", "C", "H", "_", "S",
      "C", "I", "_", "R", "A", "W", "_", "S", "u", "b", "A", "r",
      "r", "a", "y", "_", "g", "e", "n", "e", "r", "a", "l", ".",
      "f", "i", "t", "s">>

\* ../DATA/general_report/PR300005_TG000101_V0300/CH_TG000101_general.fits
FileGeneralReport ==
    <<".", ".", "/", "D", "A", "T", "A", "/", "g", "e", "n", "e", "r",
      "a", "l", "_", "r", "e", "p", "o", "r", "t", "/", "P", "R",
      "3", "0", "0", "0", "0", "5", "_", "T", "G", "0", "0", "0",
      "1", "0", "1", "_", "V", "0", "3", "0", "0", "/", "C", "H",
      "_", "T", "G", "0", "0", "0", "1", "0", "1", "_", "g", "e",
      "n", "e", "r", "a", "l", ".", "f", "i", "t", "s">>

\* ../DATA/general_report/a/b/CH_cont_data.fits
FileContData ==
    <<".", ".", "/", "D", "A", "T", "A", "/", "g", "e", "n", "e", "r",
      "a", "l", "_", "r", "e", "p", "o", "r", "t", "/", "a", "/",
      "b", "/", "C", "H", "_", "c", "o", "n", "t", "_", "d", "a",
      "t", "a", ".", "f", "i", "t", "s">>

DiskFiles ==
    {FileVisit,
     FileTop,
     FileFixed,
     FileFixedDir,
     FileHiddenDir,
     FileSciRaw,
     FileSciRawGeneral,
     FileGeneralReport,
     FileContData}

MaxFiles == 3

Disks == {d \in SUBSET DiskFiles : Cardinality(d) <= MaxFiles}

\* the orders in which list(set(...)) may list the elements of S
SetOrders(S) ==
    {o \in [1..Cardinality(S) -> S] : \A i, j \in 1..Cardinality(S) : o[i] = o[j] => i = j}

InitCatalog ==
    /\ disk \in Disks
    /\ source_name \in DOMAIN DATA_SOURCES
    /\ fits_result = Unset
    /\ IdleResolver
    /\ IdlePath
    /\ IdleLookup
    /\ IdleOutlier
    /\ IdleLoader
    /\ IdleStats
    /\ IdleCache
    /\ IdleNoise
    /\ IdlePair
    /\ IdleAccess
    /\ IdleEquiv

\* one call get_fits_files(DATA_SOURCES[source_name])
GetFitsFiles ==
    /\ fits_result = Unset
    /\ \E order \in SetOrders(Elements(FoundFiles(DATA_SOURCES[source_name], disk))) :
           fits_result' = Ret(get_fits_files(DATA_SOURCES[source_name], disk, order))
    /\ UNCHANGED <<disk, source_name, notCatalog>>

NextCatalog == GetFitsFiles

SpecCatalog == InitCatalog /\ [][NextCatalog]_vars

\* the path lies under the base directory and its file name matches the
\* inclusion pattern of the source
Included(source_config, f) ==
    GlobCount(Split(source_config.directory \o <<"/">> \o source_config.pattern, "/"),
              Split(f, "/")) > 0

\* the exclusion substrings of the source
Exclusions(source_config) ==
    (IF "exclude_pattern" \in DOMAIN source_config
     THEN {source_config.exclude_pattern} ELSE {})
    \cup (IF "exclude_patterns" \in DOMAIN source_config
          THEN Elements(source_config.exclude_patterns) ELSE {})

\* the base directory exists: some file lies in it or below it
DirectoryExists(source_config, d) ==
    \E f \in d : SubSeq(f, 1, Len(source_config.directory) + 1)
                     = source_config.directory \o <<"/">>

\* C7: get_fits_files returns each file that matches the inclusion pattern
\* under the base directory exactly once, no returned path holds an
\* exclusion substring, and without the base directory the result is empty.
C7_DiscoveredOnce ==
    fits_result # Unset =>
        LET r == fits_result[2]
            cfg == DATA_SOURCES[source_name]
        IN  /\ \A i, j \in 1..Len(r) : r[i] = r[j] => i = j
            /\ \A i \in 1..Len(r) :
                   /\ r[i] \in disk
                   /\ Included(cfg, r[i])
                   /\ \A x \in Exclusions(cfg) : ~Contains(r[i], x)
            /\ \A f \in disk :
                   (Included(cfg, f) /\ \A x \in Exclusions(cfg) : ~Contains(f, x))
                       => Holds(r, f)
            /\ ~DirectoryExists(cfg, disk) => r = <<>>

\* two files found (one of them twice by the second glob), a third excluded
C7_Witness ==
    /\ source_name = "DRP_lightcurve"
    /\ disk = {FileVisit, FileTop, FileFixed}
    /\ fits_result = Ret(<<FileVisit, FileTop>>)
    /\ Len(FoundFiles(DATA_SOURCES[source_name], disk)) > 3

-----------------------------------------------------------------------------
(* Analysis types: config.py, ANALYSIS_TYPES.  groups lists the keys of
   parameters in the order of the dictionary. *)

\* 'DRP Lightcurve'
Analysis_DRP_Lightcurve ==
    [ source |-> "DRP_lightcurve",
      calculate_stats |-> TRUE,
      groups |-> <<"FLUX", "BACKGROUND", "CONTA_LC", "SMEARING_LC">>,
      parameters |->
          ("FLUX" :> <<"FLUX">>) @@
          ("BACKGROUND" :> <<"BACKGROUND">>) @@
          ("CONTA_LC" :> <<"CONTA_LC">>) @@
          ("SMEARING_LC" :> <<"SMEARING_LC">>) ]

\* 'RPC Lightcurve'
Analysis_RPC_Lightcurve ==
    [ source |-> "RPC_lightcurve",
      calculate_stats |-> TRUE,
      groups |-> <<"FLUX", "BACKGROUND", "CONTA_LC", "SMEARING_LC">>,
      parameters |->
          ("FLUX" :> <<"FLUX">>) @@
          ("BACKGROUND" :> <<"BACKGROUND">>) @@
          ("CONTA_LC" :> <<"CONTA_LC">>) @@
          ("SMEARING_LC" :> <<"SMEARING_LC">>) ]

\* 'PIPE Lightcurve (sa)'
Analysis_PIPE_Lightcurve_sa ==
    [ source |-> "PIPE_lightcurve_sa",
      calculate_stats |-> TRUE,
      groups |-> <<"FLUX", "FLUXERR", "Background", "Position", "Roll",
                    "thermFront_2">>,
      parameters |->
          ("FLUX" :> <<"FLUX">>) @@
          ("FLUXERR" :> <<"FLUXERR">>) @@
          ("Background" :> <<"BG">>) @@
          ("Position" :> <<"XC", "YC">>) @@
          ("Roll" :> <<"ROLL">>) @@
          ("thermFront_2" :> <<"thermFront_2">>) ]

\* 'PIPE Lightcurve (im)'
Analysis_PIPE_Lightcurve_im ==
    [ source |-> "PIPE_lightcurve_im",
      calculate_stats |-> TRUE,
      groups |-> <<"FLUX", "FLUXERR", "Background", "Position", "Roll",
                    "thermFront_2">>,
      parameters |->
          ("FLUX" :> <<"FLUX">>) @@
          ("FLUXERR" :> <<"FLUXERR">>) @@
          ("Background" :> <<"BG">>) @@
          ("Position" :> <<"XC", "YC">>) @@
          ("Roll" :> <<"ROLL">>) @@
          ("thermFront_2" :> <<"thermFront_2">>) ]

\* 'Geometry'
Analysis_Geometry ==
    [ source |-> "sci_raw_metadata",
      calculate_stats |-> TRUE,
      groups |-> <<"Sun Angle", "Moon Angle", "Earth Angle">>,
      parameters |->
          ("Sun Angle" :> <<"LOS_TO_SUN_ANGLE">>) @@
          ("Moon Angle" :> <<"LOS_TO_MOON_ANGLE">>) @@
          ("Earth Angle" :> <<"LOS_TO_EARTH_ANGLE">>) ]

\* 'Voltages'
Analysis_Voltages ==
    [ source |-> "sci_raw_metadata",
      calculate_stats |-> TRUE,
      groups |-> <<"VOD", "VRD", "VOG", "VSS">>,
      parameters |->
          ("VOD" :> <<"HK_VOLT_FEE_VOD">>) @@
          ("VRD" :> <<"HK_VOLT_FEE_VRD">>) @@
          ("VOG" :> <<"HK_VOLT_FEE_VOG">>) @@
          ("VSS" :> <<"HK_VOLT_FEE_VSS">>) ]

\* 'Temperatures'
Analysis_Temperatures ==
    [ source |-> "sci_raw_metadata",
      calculate_stats |-> TRUE,
      groups |-> <<"CCD Temp", "ADC Temp", "Bias Temp">>,
      parameters |->
          ("CCD Temp" :> <<"HK_TEMP_FEE_CCD">>) @@
          ("ADC Temp" :> <<"HK_TEMP_FEE_ADC">>) @@
          ("Bias Temp" :> <<"HK_TEMP_FEE_BIAS">>) ]

\* 'Thermistors'
Analysis_Thermistors ==
    [ source |-> "sci_raw_metadata",
      calculate_stats |-> TRUE,
      groups |-> <<"Aft Thermistors", "Front Thermistors">>,
      parameters |->
          ("Aft Thermistors" :> <<"thermAft_1", "thermAft_2", "thermAft_3", "thermAft_4">>) @@
          ("Front Thermistors" :> <<"thermFront_1", "thermFront_2", "thermFront_3", "thermFront_4">>) ]

\* 'Centroids'
Analysis_Centroids ==
    [ source |-> "centroid_subarray",
      calculate_stats |-> TRUE,
      groups |-> <<"OBS", "FSW_INFLIGHT", "DRP", "FSW_GROUND", "IWCOG", "EE90">>,
      parameters |->
          ("OBS" :> <<"OBS_OFF_X", "OBS_OFF_Y", "OBS_LOC_X", "OBS_LOC_Y">>) @@
          ("FSW_INFLIGHT" :> <<"FSW_INFLIGHT_LOC_X", "FSW_INFLIGHT_LOC_Y", "FSW_INFLIGHT_X",
                "FSW_INFLIGHT_Y">>) @@
          ("DRP" :> <<"DRP_LOC_X", "DRP_LOC_Y", "DRP_X", "DRP_Y">>) @@
          ("FSW_GROUND" :> <<"FSW_GROUND_LOC_X", "FSW_GROUND_LOC_Y", "FSW_GROUND_X",
                "FSW_GROUND_Y">>) @@
          ("IWCOG" :> <<"IWCOG_LOC_X", "IWCOG_LOC_Y", "IWCOG_X", "IWCOG_Y">>) @@
          ("EE90" :> <<"EE90_LOC_X", "EE90_LOC_Y", "EE90_X", "EE90_Y">>) ]

\* 'Background Level'
Analysis_Background_Level ==
    [ source |-> "cont_data",
      calculate_stats |-> TRUE,
      groups |-> <<"Straylight BG">>,
      parameters |->
          ("Straylight BG" :> <<"SL_BG", "SL_MIN", "SL_MAX">>) ]

\* 'Background Variation'
Analysis_Background_Variation ==
    [ source |-> "cont_data",
      calculate_stats |-> TRUE,
      groups |-> <<"SAA Variance">>,
      parameters |->
          ("SAA Variance" :> <<"SAA_VAR", "SAA_MIN", "SAA_MAX">>) ]

\* 'Encircled Energy'
Analysis_Encircled_Energy ==
    [ source |-> "ee90_data",
      calculate_stats |-> TRUE,
      groups |-> <<"EE90">>,
      parameters |->
          ("EE90" :> <<"EE90">>) ]

\* 'PSF Shape'
Analysis_PSF_Shape ==
    [ source |-> "general_report",
      calculate_stats |-> FALSE,
      groups |-> <<"Location", "Sigma", "Radius", "Height">>,
      parameters |->
          ("Location" :> <<"cntr", "loc_x", "loc_y">>) @@
          ("Sigma" :> <<"sy_std", "sx_std", "sy_max", "sx_max", "sy_diff", "sx_diff">>) @@
          ("Radius" :> <<"ry_max", "rx_max", "ry_min", "rx_min", "ry_avr", "rx_avr",
                "ry_std", "rx_std">>) @@
          ("Height" :> <<"h_avr", "h_std", "h_max", "h_min">>),
      direct_columns |->
          <<"cntr", "loc_x", "loc_y", "sy_std", "sx_std", "sy_max",
            "sx_max", "sy_diff", "sx_diff", "ry_max", "rx_max",
            "ry_min", "rx_min", "ry_avr", "rx_avr", "ry_std",
            "rx_std", "h_avr", "h_std", "h_max", "h_min">> ]

ANALYSIS_TYPES ==
    ("DRP Lightcurve" :> Analysis_DRP_Lightcurve) @@
    ("RPC Lightcurve" :> Analysis_RPC_Lightcurve) @@
    ("PIPE Lightcurve (sa)" :> Analysis_PIPE_Lightcurve_sa) @@
    ("PIPE Lightcurve (im)" :> Analysis_PIPE_Lightcurve_im) @@
    ("Geometry" :> Analysis_Geometry) @@
    ("Voltages" :> Analysis_Voltages) @@
    ("Temperatures" :> Analysis_Temperatures) @@
    ("Thermistors" :> Analysis_Thermistors) @@
    ("Centroids" :> Analysis_Centroids) @@
    ("Background Level" :> Analysis_Background_Level) @@
    ("Background Variation" :> Analysis_Background_Variation) @@
    ("Encircled Energy" :> Analysis_Encircled_Energy) @@
    ("PSF Shape" :> Analysis_PSF_Shape)


-----------------------------------------------------------------------------
(* Arithmetic of the statistics *)

(***************************************************************************)
(* The statistics are computed on the integers n of the finite values      *)
(* (units of 1/Scale).  Products are formed digit by digit so that no      *)
(* intermediate value leaves the range of the integers; quotients and      *)
(* square roots are rounded down to the unit.                              *)
(***************************************************************************)

\* one doubling step of MulQR: h is the <<quotient, remainder>> of half the
\* product
StepQR(h, add, c) == <<2 * h[1] + (2 * h[2] + add) \div c, (2 * h[2] + add) % c>>

\* <<q, rem>> with r * b = q * c + rem and 0 <= rem < c, for 0 <= r < c, b >= 0
RECURSIVE MulQR(_, _, _)
MulQR(r, b, c) ==
    IF b = 0 THEN <<0, 0>> ELSE StepQR(MulQR(r, b \div 2, c), (b % 2) * r, c)

\* a * b / c rounded down, for a >= 0, b >= 0, c > 0
MulDivNat(a, b, c) == (a \div c) * b + MulQR(a % c, b, c)[1]

Abs(a) == IF a < 0 THEN 0 - a ELSE a

\* a * b / c rounded toward zero, for c > 0
MulDiv(a, b, c) ==
    IF (a < 0) = (b < 0) THEN MulDivNat(Abs(a), Abs(b), c)
    ELSE 0 - MulDivNat(Abs(a), Abs(b), c)

\* the product of two values in units of 1/Scale
Times(a, b) == MulDiv(a, b, Scale)

\* <<q, rem>> with a * b = q * c + rem, for a >= 0, b >= 0, c > 0
AddQuotient(qr, q) == <<qr[1] + q, qr[2]>>

MulQRNat(a, b, c) == AddQuotient(MulQR(a % c, b, c), (a \div c) * b)

\* qr <= x, for the <<quotient, remainder>> of a product
AtMost(qr, x) == qr[1] < x \/ (qr[1] = x /\ qr[2] = 0)

\* the largest r in lo..hi - 1 whose square is at most x, by bisection; the
\* square of lo is at most x, the square of hi is larger
RECURSIVE Bisect(_, _, _)
Bisect(lo, hi, x) ==
    IF hi - lo <= 1 THEN lo
    ELSE IF AtMost(MulQRNat((lo + hi) \div 2, (lo + hi) \div 2, Scale), x)
    THEN Bisect((lo + hi) \div 2, hi, x)
    ELSE Bisect(lo, (lo + hi) \div 2, x)

\* the square root of x >= 0
Sqrt(x) == Bisect(0, x + Scale + 1, x)

RECURSIVE Sum(_)
Sum(s) == IF s = <<>> THEN 0 ELSE Head(s) + Sum(Tail(s))

\* the integers of a sequence of finite values, and back
Units(s) == [i \in 1..Len(s) |-> s[i][2]]

-----------------------------------------------------------------------------
(* Statistics: config.py, STATISTICS CONFIGURATION *)

STATISTICS_METRICS ==
    <<"mean", "median", "sigma", "mad", "min", "max", "ptp", "p01", "p99",
      "skew", "kurtosis">>

-----------------------------------------------------------------------------
(* Binned noise: functions.py, BIN NOISE CALCULATION *)

\* the result of a call that raises
RaisedValue == <<"raise", 0>>

\* the sum of the entries from position i on
RECURSIVE FSumFrom(_, _)
FSumFrom(s, i) == IF i > Len(s) THEN Fin(0) ELSE FAdd(s[i], FSumFrom(s, i + 1))

\* x / n for an integer n > 0
FDivInt(x, n) == IF IsFin(x) THEN Fin(x[2] \div n) ELSE x

\* the entries that are not NaN
NotNaN(s) == Compress(s, [i \in 1..Len(s) |-> ~IsNaN(s[i])])

MeanOf(s) == IF s = <<>> THEN NaN ELSE FDivInt(FSumFrom(s, 1), Len(s))

\* np.nanmean: NaN when every entry is NaN
np_nanmean(s) == MeanOf(NotNaN(s))

\* x * x for a float
FSquare(x) == IF IsNaN(x) THEN NaN ELSE IF IsInf(x) THEN PosInf ELSE Fin(Times(x[2], x[2]))

FSqrt(x) == IF IsFin(x) THEN Fin(Sqrt(x[2])) ELSE x

\* the population standard deviation of s around its mean m
StdAround(s, m) ==
    FSqrt(MeanOf([i \in 1..Len(s) |-> FSquare(FSub(s[i], m))]))

StdOf(s) == IF s = <<>> THEN NaN ELSE StdAround(s, MeanOf(s))

np_nanstd(s) == StdOf(NotNaN(s))

\* ceil(a / b) for a >= 0, b > 0
CeilDiv(a, b) == (a + b - 1) \div b

\* every bin closed on both ends
BinMask_closed(times, t0, w, n_bins, i) ==
    [k \in 1..Len(times) |->
        /\ times[k] >= t0 + i * w
        /\ times[k] <= t0 + (i + 1) * w]

\* the mask of bin i (counted from 0) of n_bins bins of width w from t0: the
\* last bin is closed on both ends
BinMask(times, t0, w, n_bins, i) ==
    [k \in 1..Len(times) |->
        /\ times[k] >= t0 + i * w
        /\ IF i = n_bins - 1 THEN times[k] <= t0 + (i + 1) * w
                             ELSE times[k] < t0 + (i + 1) * w]

AnyTrue(mask) == \E k \in 1..Len(mask) : mask[k]

\* the means of the bins i, i + 1, ...: bins without a sample are left out
RECURSIVE BinMeans(_, _, _, _, _, _)
BinMeans(data, times, t0, w, n_bins, i) ==
    IF i >= n_bins THEN <<>>
    ELSE (IF AnyTrue(BinMask(times, t0, w, n_bins, i))
          THEN <<np_nanmean(Compress(data, BinMask(times, t0, w, n_bins, i)))>>
          ELSE <<>>)
         \o BinMeans(data, times, t0, w, n_bins, i + 1)

NoiseOfMeans(bin_means) ==
    IF Len(bin_means) < 2 THEN NaN ELSE np_nanstd(bin_means)

\* the part after the edges are known; data[mask] raises when data and
\* times differ in length
BinnedFrom(data, times, t0, w, n_bins) ==
    IF n_bins < 2 THEN NaN
    ELSE IF Len(data) # Len(times) THEN RaisedValue
    ELSE NoiseOfMeans(BinMeans(data, times, t0, w, n_bins, 0))

SetMin(S) == CHOOSE x \in S : \A y \in S : x <= y
SetMax(S) == CHOOSE x \in S : \A y \in S : y <= x

BinnedBetween(data, times, t0, t1, w) ==
    IF t1 <= t0 THEN NaN
    ELSE BinnedFrom(data, times, t0, w, CeilDiv(t1 - t0, w))

\* calculate_binned_noise(data, times_hours, bin_size_hours); the bin size
\* is a whole number of hours
calculate_binned_noise(data, times_hours, bin_size_hours) ==
    IF Len(data) < 2 \/ Len(times_hours) < 2 THEN NaN
    ELSE IF \E k \in 1..Len(times_hours) : ~IsFin(times_hours[k]) THEN NaN
    ELSE BinnedBetween(data, Units(times_hours),
                       SetMin(Elements(Units(times_hours))),
                       SetMax(Elements(Units(times_hours))),
                       bin_size_hours * Scale)

-----------------------------------------------------------------------------
(* Statistics: functions.py, STATISTICS CALCULATION *)

\* the key f"{prefix}_{m}" of a statistic
Key(prefix, m) == <<prefix, m>>

\* times_hours: None, or an array
NoTimes == [given |-> FALSE, hours |-> <<>>]
GivenTimes(s) == [given |-> TRUE, hours |-> s]

\* data[np.isfinite(data)]
FiniteOnly(data) == Compress(data, [i \in 1..Len(data) |-> IsFin(data[i])])

\* the sequence in ascending order
Sorted(s) == [k \in 1..Len(s) |-> KthSmallest(s, k)]

\* np.percentile(data, q) of a sorted sample of integers: linear
\* interpolation between the two nearest ranks
PercentileAt(sorted, lo, part) ==
    IF lo + 2 > Len(sorted) THEN sorted[lo + 1]
    ELSE sorted[lo + 1] + MulDiv(sorted[lo + 2] - sorted[lo + 1], part, 100)

Percentile(sorted, q) ==
    PercentileAt(sorted, (q * (Len(sorted) - 1)) \div 100, (q * (Len(sorted) - 1)) % 100)

Power(d, k) == IF k = 2 THEN Times(d, d)
               ELSE IF k = 3 THEN Times(Times(d, d), d)
               ELSE Times(Times(d, d), Times(d, d))

\* the k-th central moment of the deviations d
Moment(d, k) == Sum([i \in 1..Len(d) |-> Power(d[i], k)]) \div Len(d)

Deviations(x, mean) == [i \in 1..Len(x) |-> x[i] - mean]

MeanInt(x) == Sum(x) \div Len(x)

\* scipy.stats.skew and kurtosis from the moments: NaN for a sample without
\* spread
SkewOf(m2, m3) ==
    IF m2 = 0 THEN NaN ELSE Fin(MulDiv(m3, Scale, Times(m2, Sqrt(m2))))

KurtosisOf(m2, m4) ==
    IF m2 = 0 THEN NaN ELSE Fin(MulDiv(m4, Scale, Times(m2, m2)) - 3 * Scale)

\* a slip: skew is computed from two values on
SkewIf_two(n, d) ==
    IF n >= 2 THEN SkewOf(Moment(d, 2), Moment(d, 3)) ELSE NaN

SkewIf(n, d) ==
    IF n >= 3 THEN SkewOf(Moment(d, 2), Moment(d, 3)) ELSE NaN

KurtosisIf(n, d) ==
    IF n >= 4 THEN KurtosisOf(Moment(d, 2), Moment(d, 4)) ELSE NaN

\* the statistics that do not depend on the times; x is the sample in
\* units, sorted its sorted copy, d its deviations from the mean
BasicStats(prefix, x, sorted, d, median) ==
    (Key(prefix, "mean") :> Fin(MeanInt(x))) @@
    (Key(prefix, "median") :> median) @@
    (Key(prefix, "sigma") :> Fin(Sqrt(Moment(d, 2)))) @@
    (Key(prefix, "mad") :> MedianOf([i \in 1..Len(x) |-> FAbs(FSub(Fin(x[i]), median))])) @@
    (Key(prefix, "min") :> Fin(sorted[1])) @@
    (Key(prefix, "max") :> Fin(sorted[Len(sorted)])) @@
    (Key(prefix, "ptp") :> Fin(sorted[Len(sorted)] - sorted[1])) @@
    (Key(prefix, "p01") :> Fin(Percentile(sorted, 1))) @@
    (Key(prefix, "p99") :> Fin(Percentile(sorted, 99))) @@
    (Key(prefix, "skew") :> SkewIf(Len(x), d)) @@
    (Key(prefix, "kurtosis") :> KurtosisIf(Len(x), d))

\* the three binned-noise statistics: NaN unless the times are given and as
\* many as the finite values
BinNoiseStats(prefix, data, times_hours) ==
    IF times_hours.given /\ Len(times_hours.hours) = Len(data)
    THEN (Key(prefix, "bin_noise_1h") :> calculate_binned_noise(data, times_hours.hours, 1)) @@
         (Key(prefix, "bin_noise_3h") :> calculate_binned_noise(data, times_hours.hours, 3)) @@
         (Key(prefix, "bin_noise_6h") :> calculate_binned_noise(data, times_hours.hours, 6))
    ELSE (Key(prefix, "bin_noise_1h") :> NaN) @@
         (Key(prefix, "bin_noise_3h") :> NaN) @@
         (Key(prefix, "bin_noise_6h") :> NaN)

StatsOf(prefix, data, x, times_hours) ==
    BasicStats(prefix, x, Units(Sorted(data)), Deviations(x, MeanInt(x)), MedianOf(data))
    @@ BinNoiseStats(prefix, data, times_hours)

\* the result for an empty sample: the metrics of STATISTICS_METRICS
EmptyStats(prefix) ==
    [k \in {Key(prefix, STATISTICS_METRICS[i]) : i \in 1..Len(STATISTICS_METRICS)} |-> NaN]

\* the statistics of the finite values
StatsOfFinite(prefix, data, times_hours) ==
    IF data = <<>> THEN EmptyStats(prefix)
    ELSE StatsOf(prefix, data, Units(data), times_hours)

\* calculate_statistics(data, prefix, times_hours=None)
calculate_statistics(data, prefix, times_hours) ==
    StatsOfFinite(prefix, FiniteOnly(data), times_hours)

-----------------------------------------------------------------------------
(* Samples the statistics are exercised with *)

\* the longest sample
MaxSample == 4

\* the prefix is the name of the parameter
Prefixes == {"FLUX"}

StatValues == {Fin(Scale), Fin(3 * Scale), NaN, PosInf}

\* hours
HourValues == {Fin(0), Fin(7 * Scale)}

StatSamples == UNION {[1..n -> StatValues] : n \in 0..MaxSample}

\* no times, or times for some of the lengths
TimesFor(data) ==
    {NoTimes} \cup
    {GivenTimes(s) : s \in UNION {[1..n -> HourValues] :
                                     n \in {Len(data), Len(FiniteOnly(data))}}}

InitStats ==
    /\ st_data \in StatSamples
    /\ st_prefix \in Prefixes
    /\ st_times \in TimesFor(st_data)
    /\ st_result = Unset
    /\ IdleResolver
    /\ IdlePath
    /\ IdleLookup
    /\ IdleOutlier
    /\ IdleCatalog
    /\ IdleLoader
    /\ IdleCache
    /\ IdleNoise
    /\ IdlePair
    /\ IdleAccess
    /\ IdleEquiv

CalculateStatistics ==
    /\ st_result = Unset
    /\ st_result' = Ret(calculate_statistics(st_data, st_prefix, st_times))
    /\ UNCHANGED <<st_data, st_prefix, st_times, notStats>>

NextStats == CalculateStatistics

SpecStats == InitStats /\ [][NextStats]_vars

-----------------------------------------------------------------------------
(* Claims about calculate_statistics *)

StatResult == st_result[2]

\* the finite values of the sample
CleanedSample == FiniteOnly(st_data)

\* every statistic of a parameter, the binned-noise ones included
AllStatistics ==
    {STATISTICS_METRICS[i] : i \in 1..Len(STATISTICS_METRICS)}
    \cup {"bin_noise_1h", "bin_noise_3h", "bin_noise_6h"}

\* C11: the result of calculate_statistics has the same keys for every input
\* with the same prefix, every statistic and the three binned-noise
\* statistics among them, and for an empty cleaned sample every one is NaN
C11_UniformKeys ==
    st_result # Unset =>
        /\ DOMAIN StatResult = {Key(st_prefix, m) : m \in AllStatistics}
        /\ CleanedSample = <<>> => \A k \in DOMAIN StatResult : IsNaN(StatResult[k])

\* the cleaned sample has two different values
NonDegenerate == \E i, j \in 1..Len(CleanedSample) : CleanedSample[i] # CleanedSample[j]

Stat(m) == StatResult[Key(st_prefix, m)]

\* C12: with n finite values, skew is NaN exactly when n < 3 and kurtosis
\* exactly when n < 4 (for samples that are not degenerate); a single value
\* v gives mean = median = min = max = v, sigma = 0, skew and kurtosis NaN
C12_SkewKurtosisBySize ==
    st_result # Unset =>
        /\ Len(CleanedSample) < 3 => IsNaN(Stat("skew"))
        /\ Len(CleanedSample) < 4 => IsNaN(Stat("kurtosis"))
        /\ (NonDegenerate /\ Len(CleanedSample) >= 3) => ~IsNaN(Stat("skew"))
        /\ (NonDegenerate /\ Len(CleanedSample) >= 4) => ~IsNaN(Stat("kurtosis"))
        /\ Len(CleanedSample) = 1 =>
               /\ \A m \in {"mean", "median", "min", "max"} : Stat(m) = CleanedSample[1]
               /\ Stat("sigma") = Fin(0)

\* a sample of four values, not all equal, was summarised
C12_Witness ==
    /\ st_result # Unset
    /\ Len(CleanedSample) = 4
    /\ NonDegenerate
    /\ ~IsNaN(Stat("kurtosis"))

-----------------------------------------------------------------------------
(* Samples the binned noise is exercised with *)

\* the longest sample
MaxNoiseLen == 3

NoiseValues == {Fin(Scale), Fin(3 * Scale), NaN}

\* hours
NoiseHours == {Fin(0), Fin(Scale), Fin(3 * Scale), NaN}

\* bin sizes in hours
NoiseWidths == {1, 2}

InitNoise ==
    /\ bn_data \in UNION {[1..n -> NoiseValues] : n \in 0..MaxNoiseLen}
    /\ bn_times \in UNION {[1..n -> NoiseHours] : n \in 0..MaxNoiseLen}
    /\ bn_width \in NoiseWidths
    /\ bn_result = Unset
    /\ IdleResolver
    /\ IdlePath
    /\ IdleLookup
    /\ IdleOutlier
    /\ IdleCatalog
    /\ IdleStats
    /\ IdleLoader
    /\ IdleCache
    /\ IdlePair
    /\ IdleAccess
    /\ IdleEquiv

CalculateBinnedNoise ==
    /\ bn_result = Unset
    /\ bn_result' = Ret(calculate_binned_noise(bn_data, bn_times, bn_width))
    /\ UNCHANGED <<bn_data, bn_times, bn_width, notNoise>>

NextNoise == CalculateBinnedNoise

SpecNoise == InitNoise /\ [][NextNoise]_vars

-----------------------------------------------------------------------------
(* Claims about calculate_binned_noise *)

\* a sample: as many values as times, all of them finite
ProperSample ==
    /\ Len(bn_data) = Len(bn_times)
    /\ \A k \in 1..Len(bn_data) : IsFin(bn_data[k]) /\ IsFin(bn_times[k])

NoiseResult == bn_result[2]
SampleTimes == Units(bn_times)
FirstTime == SetMin(Elements(SampleTimes))
LastTime == SetMax(Elements(SampleTimes))
Width == bn_width * Scale

\* ceil((max - min) / w) intervals; none for an empty sample or a single
\* instant
IntervalCount ==
    IF SampleTimes = <<>> THEN 0
    ELSE IF LastTime <= FirstTime THEN 0
    ELSE CeilDiv(LastTime - FirstTime, Width)

\* interval i, counted from 0: right-open, the last one closed
InInterval(t, i) ==
    /\ FirstTime + i * Width <= t
    /\ IF i = IntervalCount - 1 THEN t <= FirstTime + (i + 1) * Width
                                ELSE t < FirstTime + (i + 1) * Width

IntervalsOf(t) == {i \in 0..(IntervalCount - 1) : InInterval(t, i)}

Members(i) == {k \in 1..Len(SampleTimes) : InInterval(SampleTimes[k], i)}

NonEmptyIntervals == {i \in 0..(IntervalCount - 1) : Members(i) # {}}

IntervalMean(i) ==
    MeanOf(Compress(bn_data, [k \in 1..Len(bn_data) |-> k \in Members(i)]))

NthNonEmpty(j) ==
    CHOOSE i \in NonEmptyIntervals :
        Cardinality({x \in NonEmptyIntervals : x < i}) = j - 1

IntervalMeans ==
    [j \in 1..Cardinality(NonEmptyIntervals) |-> IntervalMean(NthNonEmpty(j))]

\* C20: for a sample, calculate_binned_noise splits [min(times), max(times)]
\* into ceil((max - min) / w) intervals, right-open except the last, so that
\* every time of the sample lies in exactly one interval; the result is the
\* population standard deviation of the means of the non-empty intervals,
\* and NaN when fewer than 2 intervals are non-empty
C20_BinnedNoise ==
    (bn_result # Unset /\ ProperSample) =>
        /\ IntervalCount >= 1 =>
               \A k \in 1..Len(SampleTimes) :
                   Cardinality(IntervalsOf(SampleTimes[k])) = 1
        /\ Cardinality(NonEmptyIntervals) < 2 => NoiseResult = NaN
        /\ Cardinality(NonEmptyIntervals) >= 2 => NoiseResult = StdOf(IntervalMeans)

\* a sample with a time on the edge between the first two intervals and a
\* time on the closed end of the last one, whose binned noise is not zero
C20_Witness ==
    /\ bn_result # Unset
    /\ ProperSample
    /\ IntervalCount >= 2
    /\ \E k \in 1..Len(SampleTimes) : SampleTimes[k] = FirstTime + Width
    /\ LastTime = FirstTime + IntervalCount * Width
    /\ IsFin(NoiseResult)
    /\ NoiseResult # Fin(0)

\* the times of the entries of the data that are finite
PairedTimes ==
    Compress(st_times.hours, [i \in 1..Len(st_data) |-> IsFin(st_data[i])])

\* C22: when times_hours has the length of the data passed in, also with
\* non-finite entries among the data, bin_noise_1h, bin_noise_3h and
\* bin_noise_6h are what calculate_binned_noise gives for the values and
\* their own times with bin widths of 1, 3 and 6 hours
C22_BinNoiseWhenTimesMatch ==
    (st_result # Unset /\ st_times.given /\ Len(st_times.hours) = Len(st_data)
                       /\ CleanedSample # <<>>) =>
        /\ Stat("bin_noise_1h") = calculate_binned_noise(CleanedSample, PairedTimes, 1)
        /\ Stat("bin_noise_3h") = calculate_binned_noise(CleanedSample, PairedTimes, 3)
        /\ Stat("bin_noise_6h") = calculate_binned_noise(CleanedSample, PairedTimes, 6)

-----------------------------------------------------------------------------
(* Further claims about calculate_binned_noise *)

\* max(times) - min(times) of a sample, 0 for the empty one
Span == IF SampleTimes = <<>> THEN 0 ELSE LastTime - FirstTime

\* C21: for a sample, calculate_binned_noise is NaN whenever the span of the
\* times is smaller than 2 * w, and for a span of exactly 2 * w with two
\* different bin means it is the standard deviation of the two
C21_TwoFullBins ==
    (bn_result # Unset /\ ProperSample) =>
        /\ Span < 2 * Width => NoiseResult = NaN
        /\ (Span = 2 * Width /\ Len(IntervalMeans) = 2
                             /\ IntervalMeans[1] # IntervalMeans[2])
               => NoiseResult = StdOf(IntervalMeans)

-----------------------------------------------------------------------------
(* Dates *)

\* a datetime is <<year, month, day, time of day>>; the time of day is 0 for
\* a date that was parsed or truncated, and positive for datetime.now()
NoneDate == <<>>

IsLeap(y) == (y % 4 = 0 /\ y % 100 # 0) \/ y % 400 = 0

DaysInMonth(y, m) ==
    IF m = 2 THEN (IF IsLeap(y) THEN 29 ELSE 28)
    ELSE IF m \in {4, 6, 9, 11} THEN 30 ELSE 31

AllDigits(s) == \A i \in 1..Len(s) : IsDigit(s[i])

\* the fields %m and %d of strptime: one or two digits, not 0 and not 00
DateField(s, max) ==
    /\ Len(s) \in {1, 2}
    /\ AllDigits(s)
    /\ IntOfDigits(s) \in 1..max

\* the datetime of the fields year, month and day, NoneDate when they are
\* not a date of the calendar
DateOfFields(y, m, d) ==
    IF y >= 1 /\ d <= DaysInMonth(y, m) THEN <<y, m, d, 0>> ELSE NoneDate

DateOfParts(parts) ==
    IF /\ Len(parts) = 3
       /\ Len(parts[1]) = 4
       /\ AllDigits(parts[1])
       /\ DateField(parts[2], 12)
       /\ DateField(parts[3], 31)
    THEN DateOfFields(IntOfDigits(parts[1]), IntOfDigits(parts[2]), IntOfDigits(parts[3]))
    ELSE NoneDate

\* datetime.strptime(s, '%Y-%m-%d'): four digits of year, month and day
\* separated by '-', nothing after them; NoneDate stands for ValueError
strptime_ymd(s) == DateOfParts(Split(s, "-"))

\* the days from 1970-01-01 to the day with Modified Julian Date 0
MjdEpochOffset == 40587

\* the calendar date of the day number z (days since 1970-01-01)
CivilFromDays(z) ==
    LET zz == z + 719468
        era == zz \div 146097
        doe == zz - era * 146097
        yoe == (doe - doe \div 1460 + doe \div 36524 - doe \div 146096) \div 365
        doy == doe - (365 * yoe + yoe \div 4 - yoe \div 100)
        mp == (5 * doy + 2) \div 153
        d == doy - (153 * mp + 2) \div 5 + 1
        m == IF mp < 10 THEN mp + 3 ELSE mp - 9
        y == yoe + era * 400 + (IF m <= 2 THEN 1 ELSE 0)
    IN  <<y, m, d, 0>>

\* Time(x, format='mjd').datetime truncated to the day; x is finite
DateOfMjd(x) == CivilFromDays(x[2] \div Scale - MjdEpochOffset)

\* d1 <= d2
DateLe(d1, d2) ==
    \E k \in 1..5 :
        /\ \A i \in 1..(k - 1) : d1[i] = d2[i]
        /\ k = 5 \/ d1[k] < d2[k]

-----------------------------------------------------------------------------
(* FITS files *)

(***************************************************************************)
(* A FITS file is [openable, hdul]: fits.open raises for a file that is    *)
(* not openable.  hdul is the sequence of its extensions, each             *)
(* [name, header, data]: header maps keywords to values, data is NoData,   *)
(* ImageData (an array without columns) or a table [names, nrows, columns] *)
(* where columns maps a column name to the sequence of its cells.  A cell  *)
(* is a string (a sequence of characters) or a float.                      *)
(***************************************************************************)
NoData == [kind |-> "none"]
ImageData == [kind |-> "image"]

Table(cols, n) == [kind |-> "table", names |-> DOMAIN cols, nrows |-> n, columns |-> cols]

IsFloat(cell) == Len(cell) = 2 /\ cell[1] \in {"fin", "inf", "nan"}

\* a value is true in a condition: not None and not the empty string
\* (the float NaN of an empty table cell is true)
Truthy(v) == v # NoneStr /\ v # <<>>

UnknownTarget == <<"Unknown">>

\* dict.get(key, default)
Get(cfg, key, default) == IF key \in DOMAIN cfg THEN cfg[key] ELSE default

-----------------------------------------------------------------------------
(* Data extraction from FITS: data_loader.py *)

\* the outcome of a step that may raise
Raised == <<"raise">>

\* s[:n]
Prefix(s, n) == SubSeq(s, 1, IF Len(s) < n THEN Len(s) ELSE n)

\* the date of the first entry of the time column; Raised when the
\* conversion of a Modified Julian Date raises
DateOfFirst(first_time, time_format) ==
    IF time_format = "mjd"
    THEN (IF IsFloat(first_time) /\ IsFin(first_time)
          THEN DateOfMjd(first_time) ELSE Raised)
    ELSE IF ~IsFloat(first_time) THEN strptime_ymd(Prefix(first_time, 10))
    ELSE NoneDate

\* extract_visit_date(data, time_column, time_format) for a table
extract_visit_date(table, time_column, time_format) ==
    IF time_column \notin table.names THEN NoneDate
    ELSE IF Len(table.columns[time_column]) = 0 THEN NoneDate
    ELSE DateOfFirst(table.columns[time_column][1], time_format)

\* the first extension whose header holds the keyword, 0 when there is none
FirstWithHeader(hdul, keyword) ==
    LET hits == {i \in 1..Len(hdul) : keyword \in DOMAIN hdul[i].header}
    IN  IF hits = {} THEN 0 ELSE CHOOSE i \in hits : \A j \in hits : i <= j

\* the value of the keyword in extension h, default when h is 0
HeaderValue(hdul, keyword, h, default) ==
    IF h # 0 THEN hdul[h].header[keyword] ELSE default

\* the fall back of extract_target_name: the header, else 'Unknown'
TargetFromHeader(hdul, target_header) ==
    HeaderValue(hdul, target_header, FirstWithHeader(hdul, target_header), UnknownTarget)

\* get_target_from_or_id for an identifier that is not None
TargetOfOrId(df, or_id) ==
    IF Truthy(or_id) THEN get_target_from_or_id(df, or_id) ELSE NoneStr

\* the target of the reference table for the path, NoneStr without one
TargetOfPath(df, fp) ==
    IF fp # <<>> THEN TargetOfOrId(df, get_or_id_from_filepath(fp)) ELSE NoneStr

\* if target: return target, else the fall back
FirstTrue(target, hdul, target_header) ==
    IF Truthy(target) THEN target ELSE TargetFromHeader(hdul, target_header)

\* extract_target_name(hdul, source_config, filepath); df is the table that
\* load_targets_table() returns
extract_target_name(df, hdul, source_config, fp) ==
    FirstTrue(TargetOfPath(df, fp), hdul, Get(source_config, "target_header", "TARGNAME"))

\* os.path.basename
Basename(fp) ==
    LET parts == Split(fp, "/") IN parts[Len(parts)]

\* re.search(r'TG(\d+)', basename): f"TG{digits}", NoneStr without a match;
\* T and G are matched as written
SearchTGName(basename) ==
    LET hits == {i \in 1..(Len(basename) - 2) :
                    /\ basename[i] = "T"
                    /\ basename[i + 1] = "G"
                    /\ IsDigit(basename[i + 2])}
    IN  IF hits = {} THEN NoneStr
        ELSE LET i == CHOOSE h \in hits : \A j \in hits : h <= j
             IN  SubSeq(basename, i, RunEnd(basename, i + 2))

\* re.search(r'TU(\d{4}-\d{2}-\d{2})', basename): the date text, NoneStr
\* without a match
SearchTUDate(basename) ==
    LET hits == {i \in 1..(Len(basename) - 11) :
                    /\ basename[i] = "T"
                    /\ basename[i + 1] = "U"
                    /\ \A k \in {2, 3, 4, 5, 7, 8, 10, 11} : IsDigit(basename[i + k])
                    /\ basename[i + 6] = "-"
                    /\ basename[i + 9] = "-"}
    IN  IF hits = {} THEN NoneStr
        ELSE LET i == CHOOSE h \in hits : \A j \in hits : h <= j
             IN  SubSeq(basename, i + 2, i + 11)

\* the target of extract_info_from_filename: the target of the table, else
\* the TG<digits> of the name, else "Unknown"
NameTarget(target, target_match) ==
    IF Truthy(target) THEN target
    ELSE IF target_match # NoneStr THEN target_match
    ELSE UnknownTarget

\* the date of extract_info_from_filename; parsed is the date of the match
NameDate(date_match, parsed, now) ==
    IF date_match # NoneStr /\ parsed # NoneDate THEN parsed ELSE now

ParsedDate(date_match) ==
    IF date_match # NoneStr THEN strptime_ymd(date_match) ELSE NoneDate

NameDateOf(date_match, now) == NameDate(date_match, ParsedDate(date_match), now)

\* extract_info_from_filename(filename): [target_name, visit_date]; now is
\* the value of datetime.now() at the call
extract_info_from_filename(df, filename, now) ==
    [target_name |-> NameTarget(TargetOfOrId(df, get_or_id_from_filepath(filename)),
                                SearchTGName(Basename(filename))),
     visit_date |-> NameDateOf(SearchTUDate(Basename(filename)), now)]

-----------------------------------------------------------------------------
(* Main data loading functions: data_loader.py *)

Skip == [kind |-> "skip"]

\* the extension the data is read from: hdul[extension] counted from 0, or
\* the first extension whose name contains extension_name
SelectExtension(hdul, source_config) ==
    IF "extension" \in DOMAIN source_config
    THEN (IF source_config.extension + 1 <= Len(hdul)
          THEN [kind |-> "ext", ext |-> hdul[source_config.extension + 1]]
          ELSE [kind |-> "raise"])
    ELSE IF "extension_name" \in DOMAIN source_config
    THEN LET hits == {i \in 1..Len(hdul) :
                         Contains(hdul[i].name, source_config.extension_name)}
         IN  IF hits = {} THEN [kind |-> "none"]
             ELSE [kind |-> "ext",
                   ext |-> hdul[CHOOSE i \in hits : \A j \in hits : i <= j]]
    ELSE IF Len(hdul) > 1 THEN [kind |-> "ext", ext |-> hdul[2]]
    ELSE [kind |-> "none"]

\* the flat list of the parameters of the selected groups, in the order of
\* the configuration
RECURSIVE AllParams(_, _, _)
AllParams(analysis_config, selected_params, g) ==
    IF g > Len(analysis_config.groups) THEN <<>>
    ELSE (IF \/ selected_params = <<>>
             \/ analysis_config.groups[g] \in Elements(selected_params)
          THEN analysis_config.parameters[analysis_config.groups[g]] ELSE <<>>)
         \o AllParams(analysis_config, selected_params, g + 1)

\* what the record holds for one parameter: NoValue when the parameter is
\* left out, the cleaned sample for a type with calculate_stats (the sample
\* that calculate_statistics summarises), else the list of the values, or
\* the value itself when there is one
NoValue == <<"absent">>

StoredValue(cleaned, calculate_stats) ==
    IF cleaned = <<>> THEN NoValue
    ELSE IF calculate_stats \/ Len(cleaned) > 1 THEN cleaned
    ELSE cleaned[1]

\* a slip: the outliers are removed also for a type that stores raw values
ValidValues_any_type(valid_data, calculate_stats, remove_outliers_flag, sigma_threshold) ==
    IF valid_data = <<>> THEN NoValue
    ELSE IF remove_outliers_flag
    THEN StoredValue(remove_outliers_array(valid_data, sigma_threshold).data,
                     calculate_stats)
    ELSE StoredValue(valid_data, calculate_stats)

\* the values left after the NaN were removed, outliers removed on request
ValidValues(valid_data, calculate_stats, remove_outliers_flag, sigma_threshold) ==
    IF valid_data = <<>> THEN NoValue
    ELSE IF remove_outliers_flag /\ calculate_stats
    THEN StoredValue(remove_outliers_array(valid_data, sigma_threshold).data,
                     calculate_stats)
    ELSE StoredValue(valid_data, calculate_stats)

\* astype(float) raises for a column of strings
ColumnValues(param_data, calculate_stats, remove_outliers_flag, sigma_threshold) ==
    IF \E i \in 1..Len(param_data) : ~IsFloat(param_data[i]) THEN NoValue
    ELSE ValidValues(Compress(param_data,
                              [i \in 1..Len(param_data) |-> ~IsNaN(param_data[i])]),
                     calculate_stats, remove_outliers_flag, sigma_threshold)

ParamValues(table, param, calculate_stats, remove_outliers_flag, sigma_threshold) ==
    IF param \notin table.names THEN NoValue
    ELSE ColumnValues(table.columns[param], calculate_stats,
                      remove_outliers_flag, sigma_threshold)

\* record.update for each parameter in turn: a later value replaces an
\* earlier one of the same parameter
KeptValues(all_params, vals) ==
    [param \in {all_params[i] : i \in {k \in 1..Len(all_params) : vals[k] # NoValue}} |->
        vals[CHOOSE i \in 1..Len(all_params) :
                 /\ all_params[i] = param
                 /\ vals[i] # NoValue
                 /\ \A j \in 1..Len(all_params) :
                        (all_params[j] = param /\ vals[j] # NoValue) => j <= i]]

\* a field that fails takes the other fields of the record with it
RecordValues_all_or_none(table, all_params, calculate_stats, c) ==
    IF \E i \in 1..Len(all_params) :
           ParamValues(table, all_params[i], calculate_stats,
                       c.remove_outliers_flag, c.sigma_threshold) = NoValue
    THEN KeptValues(<<>>, <<>>)
    ELSE KeptValues(all_params,
                    [i \in 1..Len(all_params) |->
                        ParamValues(table, all_params[i], calculate_stats,
                                    c.remove_outliers_flag, c.sigma_threshold)])

RecordValues(table, all_params, calculate_stats, c) ==
    KeptValues(all_params,
               [i \in 1..Len(all_params) |->
                   ParamValues(table, all_params[i], calculate_stats,
                               c.remove_outliers_flag, c.sigma_threshold)])

\* the record of a file, Skip when it has no date
RecordOf(target_name, visit_date, fits_file, table, values) ==
    IF visit_date = Raised THEN [kind |-> "raise"]
    ELSE IF visit_date = NoneDate THEN Skip
    ELSE [kind |-> "record",
          record |-> [Target |-> target_name,
                      Date_of_visit |-> visit_date,
                      file |-> Basename(fits_file),
                      n_observations |-> table.nrows,
                      values |-> values]]

\* the part of the loop body after the data extension was chosen
ReadExtension(sel, target_name, fits_file, analysis_config, source_config, c) ==
    IF sel.kind = "raise" THEN [kind |-> "raise"]
    ELSE IF sel.kind # "ext" THEN Skip
    ELSE IF sel.ext.data.kind # "table" THEN Skip
    ELSE RecordOf(target_name,
                  extract_visit_date(sel.ext.data,
                                     Get(source_config, "time_column", "UTC_TIME"),
                                     Get(source_config, "time_format", "utc")),
                  fits_file,
                  sel.ext.data,
                  RecordValues(sel.ext.data,
                               AllParams(analysis_config, c.selected_params, 1),
                               Get(analysis_config, "calculate_stats", TRUE), c))

\* lines 417-422: a target 'Unknown' is looked up in the headers once more
HeaderAgain(target_name, hdul, target_header) ==
    IF target_name = UnknownTarget
    THEN HeaderValue(hdul, target_header, FirstWithHeader(hdul, target_header),
                     target_name)
    ELSE target_name

ProcessWith(df, hdul, fits_file, c, analysis_config, source_config) ==
    ReadExtension(SelectExtension(hdul, source_config),
                  HeaderAgain(extract_target_name(df, hdul, source_config, fits_file),
                              hdul, Get(source_config, "target_header", "TARGNAME")),
                  fits_file, analysis_config, source_config, c)

SourceOf(analysis_type) == DATA_SOURCES[ANALYSIS_TYPES[analysis_type].source]

\* the body of the loop of load_data_for_analysis for one open file:
\* Skip, or the record of the file
ProcessAnalysisFile(df, hdul, fits_file, c) ==
    ProcessWith(df, hdul, fits_file, c,
                ANALYSIS_TYPES[c.analysis_type], SourceOf(c.analysis_type))

\* the first extension of the file that is a table with at least one of the
\* columns, 0 when there is none
FirstPsfExtension(hdul, psf_columns) ==
    LET hits == {i \in 1..Len(hdul) :
                    /\ hdul[i].data.kind = "table"
                    /\ Elements(psf_columns) \cap hdul[i].data.names # {}}
    IN  IF hits = {} THEN 0 ELSE CHOOSE i \in hits : \A j \in hits : i <= j

\* one record per row of the table of extension e
PsfRecords(hdul, e, psf_columns, target_name, visit_date, fits_file) ==
    IF e = 0 THEN <<>>
    ELSE [i \in 1..hdul[e].data.nrows |->
             [Target |-> target_name,
              Date_of_visit |-> visit_date,
              file |-> Basename(fits_file),
              row_index |-> i - 1,
              values |-> [col \in Elements(psf_columns) \cap hdul[e].data.names |->
                             hdul[e].data.columns[col][i]]]]

\* lines 630-632: a target 'Unknown' is replaced by the one of the file name
PsfTarget(found, info) ==
    IF found = UnknownTarget THEN info.target_name ELSE found

PsfWith(hdul, fits_file, psf_columns, found, info) ==
    PsfRecords(hdul, FirstPsfExtension(hdul, psf_columns), psf_columns,
               PsfTarget(found, info), info.visit_date, fits_file)

\* the body of the loop of load_psf_data for one open file: the records of
\* the file
ProcessPsfFile(df, hdul, fits_file, now) ==
    PsfWith(hdul, fits_file,
            Get(ANALYSIS_TYPES["PSF Shape"], "direct_columns", <<>>),
            extract_target_name(df, hdul, DATA_SOURCES["general_report"], fits_file),
            extract_info_from_filename(df, fits_file, now))

\* df.sort_values('Date of visit'): the rows in non-decreasing order of the
\* date; the sort is not stable, rows with the same date come in any order
RECURSIVE SortedOrders(_, _)
SortedOrders(rows, left) ==
    IF left = {} THEN {<<>>}
    ELSE UNION {{<<rows[i]>> \o rest : rest \in SortedOrders(rows, left \ {i})}
                : i \in {k \in left :
                            \A j \in left : DateLe(rows[k].Date_of_visit,
                                                   rows[j].Date_of_visit)}}

sort_values_unsorted(rows) == {rows}

sort_values(rows) == SortedOrders(rows, 1..Len(rows))

-----------------------------------------------------------------------------
(* The files, reference tables and calls the loaders are exercised with *)

\* the number of files on disk
MaxLoaded == 2

\* a general report without an identifier in its path, with a group number
\* and a date in its name
FileGeneralDated ==
    <<".", ".", "/", "D", "A", "T", "A", "/", "g", "e", "n", "e", "r", "a",
      "l", "_", "r", "e", "p", "o", "r", "t", "/", "v", "i", "s", "i", "t",
      "/", "C", "H", "_", "T", "G", "0", "0", "1", "8", "0", "2", "_", "T",
      "U", "2", "0", "2", "1", "-", "0", "3", "-", "0", "4", "_", "g", "e",
      "n", "e", "r", "a", "l", ".", "f", "i", "t", "s">>

\* a general report without identifier, group number or date
FileGeneralBare ==
    <<".", ".", "/", "D", "A", "T", "A", "/", "g", "e", "n", "e", "r", "a",
      "l", "_", "r", "e", "p", "o", "r", "t", "/", "C", "H", "_", "g", "e",
      "n", "e", "r", "a", "l", ".", "f", "i", "t", "s">>

FileEE90 ==
    <<".", ".", "/", "D", "A", "T", "A", "/", "g", "e", "n", "e", "r", "a",
      "l", "_", "r", "e", "p", "o", "r", "t", "/", "P", "R", "3", "0", "0",
      "0", "0", "5", "_", "T", "G", "0", "0", "0", "1", "0", "1", "_", "V",
      "0", "3", "0", "0", "/", "C", "H", "_", "T", "G", "0", "0", "0", "1",
      "0", "1", "_", "e", "e", "9", "0", ".", "f", "i", "t", "s">>

LoaderPaths == {FileGeneralReport, FileGeneralDated, FileGeneralBare, FileEE90, FileSciRaw}

Utc1 ==
    <<"2", "0", "2", "2", "-", "0", "1", "-", "0", "5", "T", "1", "0", ":",
      "0", "0", ":", "0", "0", ".", "0", "0", "0">>

Utc2 ==
    <<"2", "0", "2", "2", "-", "0", "1", "-", "0", "4", "T", "2", "3", ":",
      "0", "0", ":", "0", "0", ".", "0", "0", "0">>

Mjd1 == Fin(20000 * Scale + Scale \div 2)
Mjd2 == Fin(19999 * Scale)

PrimaryName == <<"P", "R", "I", "M", "A", "R", "Y">>
MetadataName ==
    <<"S", "C", "I", "_", "R", "A", "W", "_", "I", "m", "a", "g", "e", "M",
      "e", "t", "a", "d", "a", "t", "a">>
OtherName == <<"O", "T", "H", "E", "R">>

\* headers without and with the target keyword
NoTarget == ("SIMPLE" :> <<"T">>)
WithTarget(v) == ("SIMPLE" :> <<"T">>) @@ ("TARGNAME" :> v)

OneRowTable ==
    Table(("UTC_TIME" :> <<Utc1>>) @@ ("EE90_MJD" :> <<Mjd1>>) @@
          ("EE90" :> <<Fin(Scale)>>) @@ ("cntr" :> <<Fin(0)>>) @@
          ("LOS_TO_SUN_ANGLE" :> <<Fin(Scale)>>), 1)

\* the first row is not the earliest
TwoRowTable ==
    Table(("UTC_TIME" :> <<Utc1, Utc2>>) @@ ("EE90_MJD" :> <<Mjd1, Mjd2>>) @@
          ("EE90" :> <<NaN, Fin(Scale)>>) @@ ("cntr" :> <<Fin(0), Fin(Scale)>>) @@
          ("loc_x" :> <<NaN, NaN>>) @@ ("loc_y" :> <<PosInf, Fin(Scale)>>) @@
          ("LOS_TO_SUN_ANGLE" :> <<<<"n", "/", "a">>, <<"n", "/", "a">>>>), 2)

NoTimeTable == Table(("cntr" :> <<Fin(0)>>), 1)

Hdu(name, header, data) == [name |-> name, header |-> header, data |-> data]

FitsContents ==
    {[openable |-> FALSE, hdul |-> <<>>],
     [openable |-> TRUE,
      hdul |-> <<Hdu(PrimaryName, NoTarget, NoData),
                 Hdu(MetadataName, NoTarget, OneRowTable)>>],
     [openable |-> TRUE,
      hdul |-> <<Hdu(PrimaryName, WithTarget(<<"HD3">>), ImageData),
                 Hdu(MetadataName, WithTarget(<<"HD4">>), TwoRowTable)>>],
     [openable |-> TRUE,
      hdul |-> <<Hdu(PrimaryName, WithTarget(UnknownTarget), NoData),
                 Hdu(MetadataName, NoTarget, OneRowTable)>>],
     [openable |-> TRUE,
      hdul |-> <<Hdu(PrimaryName, NoTarget, NoData),
                 Hdu(OtherName, WithTarget(<<"HD4">>), NoTimeTable)>>],
     [openable |-> TRUE,
      hdul |-> <<Hdu(PrimaryName, WithTarget(<<"HD3">>), NoData)>>]}

\* no table (targets.csv missing), a row for the group of the visits, a row
\* with an empty Target cell
LoaderTables ==
    {<<>>,
     <<[Target |-> <<"HD1">>, OrId |-> PR300005 \o Sep \o TG0001]>>,
     <<[Target |-> NaNCell, OrId |-> PR300005 \o Sep \o TG000101 \o V0300]>>}

AnalysisCall(analysis_type, remove_outliers_flag, sigma_threshold, selected_params) ==
    [fn |-> "load_data_for_analysis",
     analysis_type |-> analysis_type,
     remove_outliers_flag |-> remove_outliers_flag,
     sigma_threshold |-> sigma_threshold,
     selected_params |-> selected_params]

AnalysisCalls ==
    {AnalysisCall("PSF Shape", FALSE, SliderDefault, <<>>),
     AnalysisCall("PSF Shape", TRUE, SliderDefault, <<"Location">>),
     AnalysisCall("Encircled Energy", FALSE, SliderDefault, <<>>),
     AnalysisCall("Encircled Energy", TRUE, SliderMin, <<"EE90">>),
     AnalysisCall("Geometry", FALSE, SliderDefault, <<"Sun Angle">>),
     AnalysisCall("Ageing", FALSE, SliderDefault, <<>>)}

PsfCall == [fn |-> "load_psf_data"]

\* the values datetime.now() takes
Nows == {<<2026, 11, 3, 1>>, <<2026, 11, 3, 2>>}

-----------------------------------------------------------------------------
(* The loaders as processes: one step per file opened and per file processed *)

Init ==
    /\ \E d \in SUBSET LoaderPaths :
           /\ Cardinality(d) <= MaxLoaded
           /\ fs \in [d -> FitsContents]
    /\ targets_csv \in LoaderTables
    /\ call = NoCall
    /\ pc = "idle"
    /\ ld_files = <<>>
    /\ next_file = 0
    /\ open_files = {}
    /\ records = <<>>
    /\ returned = Unset
    /\ IdleResolver
    /\ IdlePath
    /\ IdleLookup
    /\ IdleOutlier
    /\ IdleCatalog
    /\ IdleStats
    /\ IdleCache
    /\ IdleNoise
    /\ IdlePair
    /\ IdleAccess
    /\ IdleEquiv

\* the start of a loader, up to the loop over the files
Start(c, source_config) ==
    /\ pc = "idle"
    /\ call' = c
    /\ \E order \in SetOrders(Elements(FoundFiles(source_config, DOMAIN fs))) :
           ld_files' = get_fits_files(source_config, DOMAIN fs, order)
    /\ next_file' = 1
    /\ pc' = "loop"
    /\ UNCHANGED <<fs, targets_csv, open_files, records, returned, notLoader>>

\* load_data_for_analysis(...) with an analysis type that is not configured
LoadUnknownType(c) ==
    /\ pc = "idle"
    /\ c.analysis_type \notin DOMAIN ANALYSIS_TYPES
    /\ call' = c
    /\ pc' = "done"
    /\ returned' = Ret(<<>>)
    /\ UNCHANGED <<fs, targets_csv, ld_files, next_file, open_files, records, notLoader>>

LoadDataForAnalysis(c) ==
    /\ c.analysis_type \in DOMAIN ANALYSIS_TYPES
    /\ Start(c, SourceOf(c.analysis_type))

LoadPsfData == Start(PsfCall, DATA_SOURCES["general_report"])

CachedCall(analysis_type, remove_outliers, sigma_threshold) ==
    [fn |-> "get_cached_data",
     analysis_type |-> analysis_type,
     remove_outliers |-> remove_outliers,
     sigma_threshold |-> sigma_threshold]

\* load_psf_data(remove_outliers_flag=..., sigma_threshold=...): the function
\* takes no argument, the call raises TypeError
LoadPsfDataWith(c) ==
    /\ pc = "idle"
    /\ call' = c
    /\ pc' = "done"
    /\ returned' = Raised
    /\ UNCHANGED <<fs, targets_csv, ld_files, next_file, open_files, records, notLoader>>

\* get_cached_data(analysis_type, remove_outliers, sigma_threshold): the PSF
\* loader called with the two keywords, or load_data_for_analysis with
\* selected_params=None, whose result is returned as it is
GetCachedData(analysis_type, remove_outliers, sigma_threshold) ==
    IF analysis_type = "PSF Shape"
    THEN LoadPsfDataWith(CachedCall(analysis_type, remove_outliers, sigma_threshold))
    ELSE IF analysis_type \in DOMAIN ANALYSIS_TYPES
    THEN LoadDataForAnalysis(AnalysisCall(analysis_type, remove_outliers,
                                          sigma_threshold, <<>>))
    ELSE LoadUnknownType(AnalysisCall(analysis_type, remove_outliers,
                                      sigma_threshold, <<>>))

\* with fits.open(fits_file) as hdul; a file that fails to open is passed over
OpenFile ==
    /\ pc = "loop"
    /\ next_file <= Len(ld_files)
    /\ IF fs[ld_files[next_file]].openable
       THEN /\ open_files' = open_files \cup {ld_files[next_file]}
            /\ pc' = "open"
            /\ UNCHANGED next_file
       ELSE /\ next_file' = next_file + 1
            /\ UNCHANGED <<open_files, pc>>
    /\ UNCHANGED <<fs, targets_csv, call, ld_files, records, returned, notLoader>>

\* a record appended also for a file whose processing raised
Collect_partial(recs, outcome) ==
    IF outcome.kind = "record" THEN Append(recs, outcome.record)
    ELSE IF outcome.kind = "raise" THEN Append(recs, [file |-> <<>>])
    ELSE recs

\* records.append(record) when the file gave one
Collect(recs, outcome) ==
    IF outcome.kind = "record" THEN Append(recs, outcome.record) ELSE recs

\* the loop body without the exit of the with statement: the file stays open
ProcessFile_leak ==
    /\ pc = "open"
    /\ call.fn = "load_data_for_analysis"
    /\ records' = Collect(records,
                          ProcessAnalysisFile(targets_csv, fs[ld_files[next_file]].hdul,
                                              ld_files[next_file], call))
    /\ next_file' = next_file + 1
    /\ pc' = "loop"
    /\ UNCHANGED <<fs, targets_csv, call, ld_files, open_files, returned, notLoader>>

\* the body of the with statement of load_data_for_analysis and its exit
ProcessFile ==
    /\ pc = "open"
    /\ call.fn = "load_data_for_analysis"
    /\ records' = Collect(records,
                          ProcessAnalysisFile(targets_csv, fs[ld_files[next_file]].hdul,
                                              ld_files[next_file], call))
    /\ open_files' = open_files \ {ld_files[next_file]}
    /\ next_file' = next_file + 1
    /\ pc' = "loop"
    /\ UNCHANGED <<fs, targets_csv, call, ld_files, returned, notLoader>>

\* the body of the with statement of load_psf_data and its exit
ProcessPsf ==
    /\ pc = "open"
    /\ call.fn = "load_psf_data"
    /\ \E now \in Nows :
           records' = records \o ProcessPsfFile(targets_csv, fs[ld_files[next_file]].hdul,
                                                ld_files[next_file], now)
    /\ open_files' = open_files \ {ld_files[next_file]}
    /\ next_file' = next_file + 1
    /\ pc' = "loop"
    /\ UNCHANGED <<fs, targets_csv, call, ld_files, returned, notLoader>>

\* after the loop: the empty dataset, or the records sorted by date
Finish ==
    /\ pc = "loop"
    /\ next_file > Len(ld_files)
    /\ IF records = <<>>
       THEN returned' = Ret(<<>>)
       ELSE \E rows \in sort_values(records) : returned' = Ret(rows)
    /\ pc' = "done"
    /\ UNCHANGED <<fs, targets_csv, call, ld_files, next_file, open_files, records, notLoader>>

Next ==
    \/ \E c \in AnalysisCalls : LoadUnknownType(c)
    \/ \E c \in AnalysisCalls : LoadDataForAnalysis(c)
    \/ LoadPsfData
    \/ \E c \in AnalysisCalls :
           GetCachedData(c.analysis_type, c.remove_outliers_flag, c.sigma_threshold)
    \/ OpenFile
    \/ ProcessFile
    \/ ProcessPsf
    \/ Finish

Spec == Init /\ [][Next]_vars


-----------------------------------------------------------------------------
(* Claims on the Target of a record *)

\* the Target the four-step priority gives for a file: the reference-table
\* target of the identifier in its path, else the value of the target
\* header, else the TG<digits> of its name, else "Unknown"
PriorityTarget(df, hdul, fits_file, source_config) ==
    LET from_table == TargetOfOrId(df, get_or_id_from_filepath(fits_file))
        keyword == Get(source_config, "target_header", "TARGNAME")
        h == FirstWithHeader(hdul, keyword)
        group == SearchTGName(Basename(fits_file))
    IN  IF from_table # NoneStr THEN from_table
        ELSE IF h # 0 THEN hdul[h].header[keyword]
        ELSE IF group # NoneStr THEN group
        ELSE UnknownTarget

\* the data source of the call in progress
SourceOfCall ==
    IF call.fn = "load_psf_data" THEN DATA_SOURCES["general_report"]
    ELSE SourceOf(call.analysis_type)

\* the records the step adds
NewRecords == {records'[i] : i \in (Len(records) + 1)..Len(records')}

\* C6: in both loaders, every record made for a file carries the Target the
\* four-step priority gives for that file (table, header, TG<digits> of the
\* file name, "Unknown")
C6_TargetPriority ==
    [][pc = "open" =>
          \A r \in NewRecords :
              r.Target = PriorityTarget(targets_csv, fs[ld_files[next_file]].hdul,
                                        ld_files[next_file], SourceOfCall)]_vars


-----------------------------------------------------------------------------
(* Claims on the assembled dataset *)

\* the call returned a dataset
Returned == returned[1] = "ret"

\* the rows of the dataset a finished call returned
Rows == returned[2]

\* how many times a row occurs in a sequence of rows
Occurrences(rows, r) == Cardinality({i \in 1..Len(rows) : rows[i] = r})

\* the rows are the collected records, each as often as it was collected
SameRows(rows, recs) ==
    /\ Len(rows) = Len(recs)
    /\ \A i \in 1..Len(recs) : Occurrences(rows, recs[i]) = Occurrences(recs, recs[i])

NonDecreasing(rows) ==
    \A i \in 1..(Len(rows) - 1) :
        DateLe(rows[i].Date_of_visit, rows[i + 1].Date_of_visit)

\* C13: the dataset a loader returns has exactly one row per collected
\* record, records of equal date included, in non-decreasing order of
\* 'Date of visit'; with no record collected it is the empty dataset
C13_SortedDataset ==
    (pc = "done" /\ call.fn \in {"load_data_for_analysis", "load_psf_data"}) =>
        /\ Returned
        /\ SameRows(Rows, records)
        /\ NonDecreasing(Rows)
        /\ records = <<>> => Rows = <<>>

\* a finished call whose records were collected out of date order and whose
\* dataset holds two rows of the same date
C13_Witness ==
    /\ pc = "done"
    /\ Returned
    /\ ~NonDecreasing(records)
    /\ \E i, j \in 1..Len(Rows) :
           i # j /\ Rows[i].Date_of_visit = Rows[j].Date_of_visit


\* the records load_data_for_analysis collects when the loop runs over the
\* files in the given order
RECURSIVE RecordsFrom(_, _, _, _)
RecordsFrom(df, tree, files, c) ==
    IF files = <<>> THEN <<>>
    ELSE (IF tree[Head(files)].openable
          THEN Collect(<<>>, ProcessAnalysisFile(df, tree[Head(files)].hdul, Head(files), c))
          ELSE <<>>)
         \o RecordsFrom(df, tree, Tail(files), c)

\* the datasets the end of the loader can return for the collected records
Datasets(recs) == IF recs = <<>> THEN {<<>>} ELSE sort_values(recs)

\* the datasets the call can return when the files are discovered in the
\* given order
DatasetsFor(order) ==
    Datasets(RecordsFrom(targets_csv, fs,
                         get_fits_files(SourceOfCall, DOMAIN fs, order), call))

IsNull(v) == v = NaNCell \/ v = NoneStr \/ v = NoneDate \/ v = NaN

\* C15: every record collected by a loader, and so every row of the dataset
\* it returns, has a Target and a 'Date of visit' that are not null, whatever
\* the reference table and the headers hold
C15_NonNullTargetAndDate ==
    /\ \A i \in 1..Len(records) :
           ~IsNull(records[i].Target) /\ ~IsNull(records[i].Date_of_visit)
    /\ (pc = "done" /\ Returned) =>
           \A i \in 1..Len(Rows) :
               ~IsNull(Rows[i].Target) /\ ~IsNull(Rows[i].Date_of_visit)


-----------------------------------------------------------------------------
(* Claims on files that fail, and on the files held open *)

\* the outcome of the loop body of load_data_for_analysis for a file of the
\* tree
OutcomeOf(f) == ProcessAnalysisFile(targets_csv, fs[f].hdul, f, call)

\* the file cannot be opened, or its processing raises
Fails(f) == ~fs[f].openable \/ OutcomeOf(f).kind = "raise"

\* the files of the batch without those that fail
Healthy(files) == SelectSeq(files, LAMBDA f : ~Fails(f))

\* the step about to be taken is the one in which the current file fails:
\* the open of a file that cannot be opened, or the body of the with
\* statement when it raises
HandlesFailure ==
    \/ pc = "loop" /\ ~fs[ld_files[next_file]].openable
    \/ pc = "open" /\ Fails(ld_files[next_file])

InAnalysis ==
    call.fn = "load_data_for_analysis" /\ call.analysis_type \in DOMAIN ANALYSIS_TYPES

\* C16: in load_data_for_analysis the step that handles a failing file adds
\* no record and moves on to the next file, and the records at the end of
\* the loop are those collected from the batch without the failing files
C16_FailingFileLeavesNoRow ==
    /\ [][(InAnalysis /\ next_file <= Len(ld_files) /\ HandlesFailure)
              => (records' = records /\ next_file' = next_file + 1 /\ pc' = "loop")]_vars
    /\ []((InAnalysis /\ pc = "done")
              => records = RecordsFrom(targets_csv, fs, Healthy(ld_files), call))

\* a finished batch with a file that was opened and whose processing
\* raised, and a record from another file
C16_Witness ==
    /\ InAnalysis
    /\ pc = "done"
    /\ records # <<>>
    /\ \E i \in 1..Len(ld_files) :
           fs[ld_files[i]].openable /\ OutcomeOf(ld_files[i]).kind = "raise"


\* C17: a call of get_cached_data, load_data_for_analysis or load_psf_data
\* that has finished has returned a dataset, empty in the worst case,
\* whatever the analysis type, the outlier options, the file tree and the
\* reference table: none of them raises
C17_NeverRaises == pc = "done" => Returned


\* C19: in both loaders at most one FITS file is open at any time: inside
\* the with statement it is the current file alone, and between two files,
\* before the loop and after it no file is open, also after a file that was
\* skipped or whose processing raised
C19_OneFileOpen ==
    /\ Cardinality(open_files) <= 1
    /\ pc = "open" => open_files = {ld_files[next_file]}
    /\ pc # "open" => open_files = {}

\* the second file of a batch is open after the processing of the first one
\* raised
C19_Witness ==
    /\ InAnalysis
    /\ pc = "open"
    /\ next_file = 2
    /\ open_files = {ld_files[2]}
    /\ fs[ld_files[1]].openable
    /\ OutcomeOf(ld_files[1]).kind = "raise"


-----------------------------------------------------------------------------
(* Caching: the functions decorated with st.cache_data *)

\* the number of requests the application makes
MaxRequests == 3

\* st.cache_data keeps one result per function and per value of all the
\* arguments of the call
LoadKey(analysis_type, remove_outliers_flag, sigma_threshold, selected_params) ==
    <<"load_data_for_analysis", analysis_type, remove_outliers_flag,
      sigma_threshold, selected_params>>

CachedKey(analysis_type, remove_outliers, sigma_threshold) ==
    <<"get_cached_data", analysis_type, remove_outliers, sigma_threshold, <<>>>>

PsfKey == <<"load_psf_data", "", FALSE, 0, <<>>>>

\* a scan of the file tree of a source, made for an outlier flag and a sigma
\* threshold
Triple(source, remove_outliers_flag, sigma_threshold) ==
    <<source, remove_outliers_flag, sigma_threshold>>

Scan(counts, t) == [counts EXCEPT ![t] = @ + 1]

Memo(keys, counts) == [cache |-> keys, scans |-> counts]

Stored(m, key) == Memo(m.cache \cup {key}, m.scans)

\* load_data_for_analysis behind its cache: on a miss the body runs, and it
\* scans the tree of the source unless the analysis type is unknown
MemoLoadData(m, analysis_type, remove_outliers_flag, sigma_threshold, selected_params) ==
    IF LoadKey(analysis_type, remove_outliers_flag, sigma_threshold, selected_params)
           \in m.cache
    THEN m
    ELSE Memo(m.cache \cup {LoadKey(analysis_type, remove_outliers_flag,
                                    sigma_threshold, selected_params)},
              IF analysis_type \in DOMAIN ANALYSIS_TYPES
              THEN Scan(m.scans, Triple(ANALYSIS_TYPES[analysis_type].source,
                                        remove_outliers_flag, sigma_threshold))
              ELSE m.scans)

\* load_psf_data behind its cache: it has no argument, so one entry; its
\* scan of the general reports is counted for the options it is called
\* under, no outlier removal and the default threshold
MemoLoadPsf(m) ==
    IF PsfKey \in m.cache THEN m
    ELSE Memo(m.cache \cup {PsfKey},
              Scan(m.scans, Triple("general_report", FALSE, SliderDefault)))

\* get_cached_data behind its cache: on a miss the body calls the cached
\* load_data_for_analysis with selected_params=None; for 'PSF Shape' the
\* body raises and nothing is stored
MemoGetCached(m, analysis_type, remove_outliers, sigma_threshold) ==
    IF CachedKey(analysis_type, remove_outliers, sigma_threshold) \in m.cache THEN m
    ELSE IF analysis_type = "PSF Shape" THEN m
    ELSE Stored(MemoLoadData(m, analysis_type, remove_outliers, sigma_threshold, <<>>),
                CachedKey(analysis_type, remove_outliers, sigma_threshold))

\* the analysis types the requests are made for: two of them read the same
\* data source
CacheTypes == {"Geometry", "Voltages", "Encircled Energy", "PSF Shape"}

CacheSigmas == {SliderDefault, SliderMin}

Triples ==
    {Triple(ANALYSIS_TYPES[t].source, f, s) :
        t \in CacheTypes, f \in BOOLEAN, s \in CacheSigmas}

\* the parameter groups ticked in the sidebar: all of them, or the first
SelectionsOf(analysis_type) ==
    {ANALYSIS_TYPES[analysis_type].groups,
     <<ANALYSIS_TYPES[analysis_type].groups[1]>>}

\* the options of the sidebar: outlier removal is offered for the analysis
\* types that calculate statistics, the threshold when it is ticked
Options(analysis_type) ==
    {<<FALSE, SliderDefault>>} \cup
    (IF Get(ANALYSIS_TYPES[analysis_type], "calculate_stats", TRUE)
     THEN {<<TRUE, s>> : s \in CacheSigmas} ELSE {})

InitCache ==
    /\ cache = {}
    /\ scans = [t \in Triples |-> 0]
    /\ requests = 0
    /\ IdleResolver
    /\ IdlePath
    /\ IdleLookup
    /\ IdleOutlier
    /\ IdleCatalog
    /\ IdleStats
    /\ IdleLoader
    /\ IdleNoise
    /\ IdlePair
    /\ IdleAccess
    /\ IdleEquiv

Serve(m) ==
    /\ requests < MaxRequests
    /\ requests' = requests + 1
    /\ cache' = m.cache
    /\ scans' = m.scans
    /\ UNCHANGED notCache

\* app_v2.py, LOAD DATA: the dataset of the page
MainLoad(analysis_type, remove_outliers, sigma_threshold, selected_groups) ==
    IF analysis_type = "PSF Shape"
    THEN Serve(MemoLoadPsf(Memo(cache, scans)))
    ELSE Serve(MemoLoadData(Memo(cache, scans), analysis_type, remove_outliers,
                            sigma_threshold, selected_groups))

\* app_v2.py, correlation analysis: get_cached_data for another analysis type
\* under the options of the page
Correlation(analysis_type, remove_outliers, sigma_threshold) ==
    Serve(MemoGetCached(Memo(cache, scans), analysis_type, remove_outliers,
                        sigma_threshold))

\* the cache cleared by hand
ClearCache ==
    /\ cache # {}
    /\ cache' = {}
    /\ scans' = [t \in Triples |-> 0]
    /\ UNCHANGED <<requests, notCache>>

NextCache ==
    \/ \E t \in CacheTypes : \E o \in Options(t) : \E g \in SelectionsOf(t) :
           MainLoad(t, o[1], o[2], g)
    \/ \E t, page \in CacheTypes : \E o \in Options(page) :
           Correlation(t, o[1], o[2])
    \/ ClearCache

SpecCache == InitCache /\ [][NextCache]_vars

\* C18: since the cache was last cleared, the file tree of a source was
\* scanned at most once for each (source, remove-outliers flag, sigma
\* threshold), whatever the entry points, analysis types and parameter
\* groups of the requests
C18_OneScanPerTriple == \A t \in Triples : scans[t] <= 1


-----------------------------------------------------------------------------
(* Claims on the 'Date of visit' of a record *)

\* the table load_data_for_analysis reads for the file in hand
CurrentTable ==
    SelectExtension(fs[ld_files[next_file]].hdul, SourceOfCall).ext.data

TimeColumnName == Get(SourceOfCall, "time_column", "UTC_TIME")

\* the dates of the values of the time column that have one
ColumnDates ==
    {DateOfFirst(CurrentTable.columns[TimeColumnName][k],
                 Get(SourceOfCall, "time_format", "utc")) :
        k \in 1..Len(CurrentTable.columns[TimeColumnName])} \ {NoneDate, Raised}

\* C23: a record made by load_data_for_analysis carries the calendar date of
\* the earliest value of the configured time column of its file, whatever
\* the order of the rows; without a time column or a value in it there is no
\* record
C23_EarliestDate ==
    [][(pc = "open" /\ InAnalysis) =>
          \A r \in NewRecords :
              /\ TimeColumnName \in CurrentTable.names
              /\ r.Date_of_visit \in ColumnDates
              /\ \A d \in ColumnDates : DateLe(r.Date_of_visit, d)]_vars


\* the dates of the values of the time column of a table, none for an
\* extension without such a table
DatesOfTable(data) ==
    IF data.kind = "table" /\ TimeColumnName \in data.names
    THEN {DateOfFirst(data.columns[TimeColumnName][k],
                      Get(SourceOfCall, "time_format", "utc")) :
             k \in 1..Len(data.columns[TimeColumnName])} \ {NoneDate, Raised}
    ELSE {}

\* the date TU<YYYY-MM-DD> of the name of the file, if it has one
DatesOfName(fits_file) == {ParsedDate(SearchTUDate(Basename(fits_file)))} \ {NoneDate}

\* the dates that can be derived from the file in hand
FileDates ==
    DatesOfName(ld_files[next_file]) \cup
    UNION {DatesOfTable(fs[ld_files[next_file]].hdul[e].data) :
              e \in 1..Len(fs[ld_files[next_file]].hdul)}

\* C24: in both loaders the 'Date of visit' of every record is derived from
\* its file, a timestamp of the time column or the date in the file name, so
\* that a file gives the same date at every run and a file without a date
\* gives no record
C24_DateFromFile ==
    [][pc = "open" => \A r \in NewRecords : r.Date_of_visit \in FileDates]_vars


-----------------------------------------------------------------------------
(* Claims on the fields of a record *)

\* the fields requested by the call in progress
Requested ==
    Elements(AllParams(ANALYSIS_TYPES[call.analysis_type], call.selected_params, 1))

\* what the field gives for a table when it is looked at on its own
Alone(table, param) ==
    ParamValues(table, param,
                Get(ANALYSIS_TYPES[call.analysis_type], "calculate_stats", TRUE),
                call.remove_outliers_flag, call.sigma_threshold)

\* C25: in load_data_for_analysis a requested field that is absent from the
\* table, cannot be turned into floats or is empty after cleaning is left
\* out of the record, and every other requested field is in the record with
\* the values it has on its own; the record carries Target, 'Date of
\* visit', file and n_observations all the same
C25_FieldsIndependent ==
    [][(pc = "open" /\ InAnalysis) =>
          \A r \in NewRecords :
              /\ {"Target", "Date_of_visit", "file", "n_observations"} \subseteq DOMAIN r
              /\ DOMAIN r.values =
                     {p \in Requested : Alone(CurrentTable, p) # NoValue}
              /\ \A p \in DOMAIN r.values : r.values[p] = Alone(CurrentTable, p)]_vars

\* a record of a file whose table has a requested column that gave nothing,
\* with the values of another field
C25_Witness ==
    /\ InAnalysis
    /\ pc = "loop"
    /\ next_file = 2
    /\ Len(records) = 1
    /\ DOMAIN records[1].values # {}
    /\ fs[ld_files[1]].openable
    /\ \E p \in Requested :
           /\ p \notin DOMAIN records[1].values
           /\ p \in SelectExtension(fs[ld_files[1]].hdul, SourceOfCall).ext.data.names


-----------------------------------------------------------------------------
(* The values and times of a parameter: data_loader.py, Process each
   parameter *)

\* valid_mask = ~np.isnan(param_data)
ValidMask(param_data) == [i \in 1..Len(param_data) |-> ~IsNaN(param_data[i])]

\* valid_times: the times of the valid values when the table has times of
\* the length of the column
ValidTimes(param_data, times_hours) ==
    IF times_hours.given /\ Len(times_hours.hours) = Len(param_data)
    THEN GivenTimes(Compress(times_hours.hours, ValidMask(param_data)))
    ELSE NoTimes

\* valid_times[outlier_mask]
MaskedTimes_unfiltered(valid_times, outlier_mask) == valid_times

MaskedTimes(valid_times, outlier_mask) ==
    IF valid_times.given THEN GivenTimes(Compress(valid_times.hours, outlier_mask))
    ELSE NoTimes

\* the values and times after the optional outlier removal
Filtered(valid_data, valid_times, remove_outliers_flag, sigma_threshold) ==
    IF remove_outliers_flag
    THEN [data |-> remove_outliers_array(valid_data, sigma_threshold).data,
          times |-> MaskedTimes(valid_times,
                                remove_outliers_array(valid_data, sigma_threshold).mask)]
    ELSE [data |-> valid_data, times |-> valid_times]

\* what is handed to calculate_statistics and what it returns; no call for
\* a parameter without a value
Handed(pair, param) ==
    IF pair.data = <<>> THEN [called |-> FALSE, data |-> <<>>, times |-> NoTimes,
                              stats |-> EmptyStats(param)]
    ELSE [called |-> TRUE, data |-> pair.data, times |-> pair.times,
          stats |-> calculate_statistics(pair.data, param, pair.times)]

\* the body of the loop over the parameters for a column of floats of an
\* analysis type that calculates statistics
ParamStats(param_data, param, times_hours, remove_outliers_flag, sigma_threshold) ==
    IF Compress(param_data, ValidMask(param_data)) = <<>>
    THEN Handed([data |-> <<>>, times |-> NoTimes], param)
    ELSE Handed(Filtered(Compress(param_data, ValidMask(param_data)),
                         ValidTimes(param_data, times_hours),
                         remove_outliers_flag, sigma_threshold), param)

\* the longest column
MaxColumn == 3

ColumnData == {Fin(Scale), Fin(2 * Scale), Fin(4 * Scale), NaN, PosInf}

ColumnHours == {Fin(0), Fin(7 * Scale)}

\* a table without times, or with a time for every row
ColumnTimes(param_data) ==
    {NoTimes} \cup {GivenTimes(s) : s \in [1..Len(param_data) -> ColumnHours]}

InitPair ==
    /\ pr_data \in UNION {[1..n -> ColumnData] : n \in 0..MaxColumn}
    /\ pr_times \in ColumnTimes(pr_data)
    /\ \E o \in {<<FALSE, SliderDefault>>, <<TRUE, SliderMin>>, <<TRUE, SliderDefault>>,
                  <<TRUE, SliderMax>>} :
           pr_flag = o[1] /\ pr_sigma = o[2]
    /\ pr_result = Unset
    /\ IdleResolver
    /\ IdlePath
    /\ IdleLookup
    /\ IdleOutlier
    /\ IdleCatalog
    /\ IdleStats
    /\ IdleLoader
    /\ IdleCache
    /\ IdleNoise
    /\ IdleAccess
    /\ IdleEquiv

ProcessParameter ==
    /\ pr_result = Unset
    /\ pr_result' = Ret(ParamStats(pr_data, "FLUX", pr_times, pr_flag, pr_sigma))
    /\ UNCHANGED <<pr_data, pr_times, pr_flag, pr_sigma, notPair>>

NextPair == ProcessParameter

SpecPair == InitPair /\ [][NextPair]_vars


-----------------------------------------------------------------------------
(* Claims on the pairing of values and times *)

HandedOver == pr_result[2]

\* the rows of the column whose value is not NaN
ValidRows ==
    Compress([i \in 1..Len(pr_data) |-> i], ValidMask(pr_data))

\* the rows whose value is handed to calculate_statistics
KeptRows ==
    IF pr_flag
    THEN Compress(ValidRows,
                  remove_outliers_array(Compress(pr_data, ValidMask(pr_data)),
                                        pr_sigma).mask)
    ELSE ValidRows

\* the rows whose value enters the statistics
FiniteRows == SelectSeq(KeptRows, LAMBDA r : IsFin(pr_data[r]))

ValuesOfRows(rows) == [k \in 1..Len(rows) |-> pr_data[rows[k]]]
TimesOfRows(rows) == [k \in 1..Len(rows) |-> pr_times.hours[rows[k]]]

\* the binned noise is NaN or the one of the values with the times of their
\* own rows
OwnTimes(metric, w) ==
    Key("FLUX", metric) \in DOMAIN HandedOver.stats =>
        \/ IsNaN(HandedOver.stats[Key("FLUX", metric)])
        \/ HandedOver.stats[Key("FLUX", metric)] =
               calculate_binned_noise(ValuesOfRows(FiniteRows), TimesOfRows(FiniteRows), w)

\* C26: the values and the times handed to calculate_statistics are those of
\* the same rows of the table, after the NaN removal and after the outlier
\* removal, and a binned-noise statistic that is not NaN is computed from
\* each value with the time of its own row
C26_ValuesAndTimesPaired ==
    (pr_result # Unset /\ HandedOver.called) =>
        /\ HandedOver.data = ValuesOfRows(KeptRows)
        /\ HandedOver.times.given = pr_times.given
        /\ pr_times.given => HandedOver.times.hours = TimesOfRows(KeptRows)
        /\ OwnTimes("bin_noise_1h", 1)
        /\ OwnTimes("bin_noise_3h", 3)
        /\ OwnTimes("bin_noise_6h", 6)

\* a column that lost a row to the outlier removal and whose binned noise
\* was computed
C26_Witness ==
    /\ pr_result # Unset
    /\ HandedOver.called
    /\ pr_flag
    /\ Len(KeptRows) < Len(ValidRows)
    /\ KeptRows # SubSeq(ValidRows, 1, Len(KeptRows))
    /\ IsFin(HandedOver.stats[Key("FLUX", "bin_noise_1h")])

-----------------------------------------------------------------------------
(* get_targets_accessibility_table *)

Tick == <<"tick">>
Cross == <<"cross">>

\* checks: the source keys looked up and the columns they fill
checks ==
    <<[source_key |-> "lightcurve", col_name |-> "Lightcurves"],
      [source_key |-> "sci_raw_metadata", col_name |-> "SCI_RAW Data"],
      [source_key |-> "general_report", col_name |-> "General report"]>>

\* the lower-cased path ORIDs of the files get_fits_files returns; the set
\* does not depend on the order in which list(set(...)) lists the files
OrIdsOfFiles(source_config, tree) ==
    LET order == CHOOSE o \in SetOrders(Elements(FoundFiles(source_config, tree))) : TRUE
        available_files == get_fits_files(source_config, tree, order)
    IN  {Lower(get_or_id_from_filepath(available_files[i])) :
            i \in {j \in 1..Len(available_files) :
                      get_or_id_from_filepath(available_files[j]) \notin {NoneStr, <<>>}}}

\* available_or_ids_by_source[source_key]; DATA_SOURCES.get(source_key, {}) is
\* the empty dict for a key DATA_SOURCES does not have
available_or_ids(source_key, tree) ==
    IF source_key \notin DOMAIN DATA_SOURCES THEN {}
    ELSE OrIdsOfFiles(DATA_SOURCES[source_key], tree)

\* the mark of one column of one row
Mark(clean_or_id, source_key, tree) ==
    IF \E avail_or_id \in available_or_ids(source_key, tree) :
           fuzzy_match_or_id(clean_or_id, avail_or_id)
    THEN Tick ELSE Cross

\* out_row for one row of the reference table (the Year column is copied
\* like Target and is left out)
AccessRow(row, tree) ==
    LET or_id == Strip(row.OrId)
        clean_or_id == Lower(StripVersion(or_id))
    IN  [Target |-> row.Target,
         OrId |-> or_id,
         marks |-> [i \in 1..Len(checks) |-> Mark(clean_or_id, checks[i].source_key, tree)]]

\* an empty table gives an empty DataFrame, which has no rows either
get_targets_accessibility_table(df, tree) ==
    [k \in 1..Len(df) |-> AccessRow(df[k], tree)]

-----------------------------------------------------------------------------
(* Tables and file trees the accessibility table is built from *)

AccessRows == {r \in TableRows : r.Target = <<"HD1">>}

AccessTables == UNION {[1..n -> AccessRows] : n \in 0..MaxRows}

InitAccess ==
    /\ ac_disk \in Disks
    /\ ac_table \in AccessTables
    /\ ac_result = Unset
    /\ IdleResolver
    /\ IdlePath
    /\ IdleLookup
    /\ IdleOutlier
    /\ IdleCatalog
    /\ IdleLoader
    /\ IdleStats
    /\ IdleCache
    /\ IdleNoise
    /\ IdlePair
    /\ IdleEquiv

\* one call get_targets_accessibility_table()
GetTargetsAccessibilityTable ==
    /\ ac_result = Unset
    /\ ac_result' = Ret(get_targets_accessibility_table(ac_table, ac_disk))
    /\ UNCHANGED <<ac_disk, ac_table, notAccess>>

NextAccess == GetTargetsAccessibilityTable

SpecAccess == InitAccess /\ [][NextAccess]_vars

-----------------------------------------------------------------------------
(* Claims on the accessibility table *)

\* the configured sources each column stands for
ColumnSources ==
    <<{"DRP_lightcurve", "RPC_lightcurve", "PIPE_lightcurve_sa", "PIPE_lightcurve_im"},
      {"sci_raw_metadata"},
      {"general_report"}>>

\* the path ORIDs of the files discovered for the sources of column i
DiscoveredOrIds(i) ==
    UNION {OrIdsOfFiles(DATA_SOURCES[k], ac_disk) : k \in ColumnSources[i]}

\* C27: the table has exactly one row per entry of the reference table, and
\* in each row each of the three columns is a check mark exactly when some
\* file discovered for the column's data source has a path ORID equivalent
\* to the entry's OR ID, and a cross otherwise.
C27_MarksFollowFiles ==
    ac_result # Unset =>
        /\ Len(ac_result[2]) = Len(ac_table)
        /\ \A k \in 1..Len(ac_table) : \A i \in 1..Len(checks) :
               /\ ac_result[2][k].marks[i] \in {Tick, Cross}
               /\ ac_result[2][k].marks[i] = Tick <=>
                      \E f \in DiscoveredOrIds(i) : fuzzy_match_or_id(ac_table[k].OrId, f)

\* the part of C27 on the two columns whose source key is configured
C27_ConfiguredColumns ==
    ac_result # Unset =>
        /\ Len(ac_result[2]) = Len(ac_table)
        /\ \A k \in 1..Len(ac_table) : \A i \in 2..Len(checks) :
               /\ ac_result[2][k].marks[i] \in {Tick, Cross}
               /\ ac_result[2][k].marks[i] = Tick <=>
                      \E f \in DiscoveredOrIds(i) : fuzzy_match_or_id(ac_table[k].OrId, f)

-----------------------------------------------------------------------------
(* Spellings fuzzy_match_or_id and get_target_from_or_id are compared on *)

\* the version suffix as a lower-case spelling writes it
V0300Lower == Lower(V0300)

Spellings ==
    {PR300005 \o Sep \o TG0001,
     PR300005 \o Sep \o TG000101 \o V0300,
     Lower(PR300005 \o Sep \o TG0001) \o <<" ">>,
     PR300005 \o Sep \o TG001001,
     PR300005,
     PR300005 \o V0300,
     PR300005 \o V0300 \o V0300,
     PR300005 \o V0300 \o <<" ">>,
     Lower(PR300005) \o V0300Lower}

SpellingTables ==
    {<<>>,
     <<[Target |-> <<"HD1">>, OrId |-> PR300005]>>,
     <<[Target |-> <<"HD2">>, OrId |-> PR300005 \o Sep \o TG001001],
       [Target |-> <<"HD1">>, OrId |-> PR300005 \o Sep \o TG000101]>>}

Positions == {1, 2, 3}

InitEquiv ==
    /\ eq_ids \in [Positions -> Spellings]
    /\ eq_table \in SpellingTables
    /\ eq_match = Unset
    /\ eq_target = Unset
    /\ IdleResolver
    /\ IdlePath
    /\ IdleLookup
    /\ IdleOutlier
    /\ IdleCatalog
    /\ IdleLoader
    /\ IdleStats
    /\ IdleCache
    /\ IdleNoise
    /\ IdlePair
    /\ IdleAccess

\* the calls fuzzy_match_or_id(x, y) for every two of the three identifiers
MatchSpellings ==
    /\ eq_match = Unset
    /\ eq_match' = Ret([p \in Positions \X Positions |->
                           fuzzy_match_or_id(eq_ids[p[1]], eq_ids[p[2]])])
    /\ UNCHANGED <<eq_ids, eq_table, eq_target, notEquiv>>

\* the calls get_target_from_or_id(x) for each of the three identifiers
ResolveSpellings ==
    /\ eq_target = Unset
    /\ eq_target' = Ret([i \in Positions |-> get_target_from_or_id(eq_table, eq_ids[i])])
    /\ UNCHANGED <<eq_ids, eq_table, eq_match, notEquiv>>

NextEquiv == MatchSpellings \/ ResolveSpellings

SpecEquiv == InitEquiv /\ [][NextEquiv]_vars

-----------------------------------------------------------------------------
(* Claims on fuzzy_match_or_id as an equivalence *)

Matches(i, j) == eq_match[2][<<i, j>>]

Transitive ==
    \A i, j, k \in Positions : (Matches(i, j) /\ Matches(j, k)) => Matches(i, k)

\* the identifier holds a PR segment and a TG segment
HasSegments(or_id) ==
    LET s == Strip(Lower(StripVersion(or_id)))
    IN  SearchPR(s) # NoneStr /\ extract_tg_group(s) # NoneInt

-----------------------------------------------------------------------------
(* Claims on how much the outlier removal keeps *)

\* the values of the column that are not NaN
ValidSample == ValuesOfRows(ValidRows)

\* the outlier removal runs on a non-empty sample, at a threshold of the
\* slider's range
FilteredSample ==
    /\ pr_result # Unset
    /\ pr_flag
    /\ pr_sigma \in SliderMin..SliderMax
    /\ ValidSample # <<>>

\* at least half of the valid values, rounded up, are handed on, and the
\* field is not omitted
KeepsHalf ==
    /\ HandedOver.called
    /\ 2 * Len(HandedOver.data) >= Len(ValidSample)

\* C29 as stated: for every non-empty NaN-free sample and every threshold of
\* the slider the outlier removal keeps at least half of the values,
\* rounded up, so the field is not omitted from the record.
C29_KeepsHalfOfNaNFree == FilteredSample => KeepsHalf

\* C29, amended: the same for every non-empty sample of finite values.
C29_KeepsHalfOfFinite ==
    (FilteredSample /\ \A i \in 1..Len(ValidSample) : IsFin(ValidSample[i])) => KeepsHalf

\* of the three values 1, 2, 4 the outlier removal at the lowest threshold
\* kept exactly two
C29_Witness ==
    /\ FilteredSample
    /\ pr_sigma = SliderMin
    /\ pr_data = <<Fin(Scale), Fin(2 * Scale), Fin(4 * Scale)>>
    /\ HandedOver.called
    /\ HandedOver.data = <<Fin(Scale), Fin(2 * Scale)>>

-----------------------------------------------------------------------------
(* Claims on the inputs the dataset does not depend on *)

\* the calls that differ from c only in inputs that are said not to count:
\* remove_outliers_flag and sigma_threshold for a type with calculate_stats
\* = False, sigma_threshold when remove_outliers_flag is False
Variants(c) ==
    IF ~Get(ANALYSIS_TYPES[c.analysis_type], "calculate_stats", TRUE)
    THEN {AnalysisCall(c.analysis_type, f, k, c.selected_params) :
              f \in BOOLEAN, k \in Thresholds}
    ELSE IF ~c.remove_outliers_flag
    THEN {AnalysisCall(c.analysis_type, FALSE, k, c.selected_params) : k \in Thresholds}
    ELSE {c}

\* C30: the dataset of load_data_for_analysis does not depend on
\* sigma_threshold when remove_outliers_flag is False, nor on either of the
\* two for an analysis type with calculate_stats = False: a run over the
\* same files that differs only in those inputs collects the same records
\* and can return the same datasets.
C30_IndependentOfUnusedInputs ==
    (pc = "done" /\ call.fn = "load_data_for_analysis"
                 /\ call.analysis_type \in DOMAIN ANALYSIS_TYPES) =>
        \A c \in Variants(call) :
            /\ RecordsFrom(targets_csv, fs, ld_files, c) = records
            /\ Rows \in Datasets(RecordsFrom(targets_csv, fs, ld_files, c))

\* a call for raw values with the outlier removal requested returned a
\* column that the outlier removal would have emptied
C30_Witness ==
    /\ pc = "done"
    /\ Returned
    /\ call.fn = "load_data_for_analysis"
    /\ call.analysis_type = "PSF Shape"
    /\ call.remove_outliers_flag
    /\ \E i \in 1..Len(Rows) :
           /\ "loc_y" \in DOMAIN Rows[i].values
           /\ Rows[i].values["loc_y"] = <<PosInf, Fin(Scale)>>
           /\ remove_outliers_array(Rows[i].values["loc_y"], call.sigma_threshold).data = <<>>

=============================================================================
